---------------------------- MODULE Spec2Model ----------------------------
(***************************************************************************)
(* A model of the membership ledger of the Telegram reporting bot:         *)
(* the SQLite store (db/db.py), the chat-member handlers                   *)
(* (handlers/events.py), the invite and user managers (utils/adapter.py).  *)
(*                                                                         *)
(* Conventions.                                                            *)
(*  - Python None / SQL NULL is None (-1) in integer columns and NoneStr   *)
(*    in text columns.  Python truthiness (`if x:`) is Truthy(x).          *)
(*  - An instant is a natural number of clock ticks; TicksPerDay ticks     *)
(*    make a calendar day.  event_time is the ISO-8601 UTC string of the   *)
(*    instant (db.py:208); all such strings carry the same offset, so the  *)
(*    SQL string comparison `event_time > ?` orders them as the instants   *)
(*    are ordered, and SQL date(event_time) is DayOf of the instant.       *)
(*  - A journal row's id is its position in the sequence journal: rowids   *)
(*    are handed out in insertion order and no statement of the program    *)
(*    deletes from journal.                                                *)
(***************************************************************************)
EXTENDS Integers, Sequences, FiniteSets, TLC

None == -1
NoneStr == "<None>"

\* ------------------------------------------------------------------ bounds
MaxJournal == 2
MaxTime == 1
TicksPerDay == 2
MaxUpdateId == 2
MaxInviters == 2
MaxRows == 3
MaxInvited == 5

TgUsers == {1, 2}
UpdateIds == 1..MaxUpdateId
InviterNames == {"Ann", "Bob"}
InviteLinks == {"t1", "t2"}

VARIABLES
    now,               \* the wall clock, in ticks
    journal,           \* table journal, in id order
    origin,            \* history: the delivery each journal row came from (None: not from the transport)
    returned,          \* history: per telegram_update_id, the last two calls made with it (returned id, event type)
    retention_checks,  \* table retention_checks
    inviters,          \* table inviters
    inviter_seq,       \* the largest inviter id handed out so far
    users,             \* table users
    last,              \* history: the last operation, its arguments, its result
    calls,             \* per caller, the insert_journal_event call it is in and how far it got
    runs,              \* per caller, the get_retention_stats run it is in and how far it got
    ADMIN_IDS,         \* commands.ADMIN_IDS: the administrators' Telegram ids
    fsm,               \* per sender, the dialog state and data of its FSM context
    scheduler          \* the ReportScheduler: config, running, jobs, _sent_today; history: deliveries

vars == <<now, journal, origin, returned, retention_checks, inviters, inviter_seq, users, last,
          calls, runs, ADMIN_IDS, fsm, scheduler>>

Truthy(x) == x # None /\ x # 0
DayOf(t) == t \div TicksPerDay

Range(s) == {s[i] : i \in 1..Len(s)}
Ids(j) == 1..Len(j)

Idle == [op |-> "none"]

\* os.environ['ADMIN_IDS'] as initialize_admin_ids parses it at start-up:
\* subject 1 is the administrator, subject 2 is not.
EnvAdminIds == {1}

\* A sender's FSM context with no dialog: state None and no data.  A key that
\* is absent from the data reads as None.
NoData == [tg_user_id |-> None, username |-> NoneStr, name |-> NoneStr]
NoDialog == [state |-> NoneStr, data |-> NoData]

\* The chats reports can be sent to, the number of days the scheduler's
\* clock covers and the deliveries counted per day and chat.
ChatIds == {1, 2}
MaxClock == 3
MaxDeliveries == 2

\* No _send_daily_reports task is running.
NoTask == [pc |-> "idle", report_key |-> None, todo |-> <<>>]

\* ReportScheduler.__init__: ScheduleConfig() (report_time the last tick of
\* the day, no target chats, enabled, daily reports), not running, nothing
\* sent.  fired is the run time of the job's last firing; delivered counts,
\* per report day and chat, the daily reports the chat was sent.
NewScheduler ==
    [enabled |-> TRUE, report_time |-> TicksPerDay - 1, target_chats |-> <<>>,
     running |-> FALSE, jobs |-> {}, sent_today |-> {}, task |-> NoTask,
     fired |-> None,
     delivered |-> [k \in (0..(MaxClock \div TicksPerDay)) \X ChatIds |-> 0]]

\* ------------------------------------------------------------ the schema
\* journal.telegram_update_id is UNIQUE; NULLs never conflict.
DeliveryConflict(j, update_id) ==
    update_id # None /\ \E i \in Ids(j) : j[i].telegram_update_id = update_id

\* (mutant) a retention_checks table without the UNIQUE index.
NoCheckConflict(rc, journal_id, check_date) == FALSE

\* retention_checks is UNIQUE on (journal_id, check_date).
CheckConflict(rc, journal_id, check_date) ==
    \E c \in rc : c.journal_id = journal_id /\ c.check_date = check_date

\* (mutant) a journal whose inviter_id is a plain column.
NeverReferenced(j, inviter_id) == FALSE

\* journal.inviter_id REFERENCES inviters(id) with no ON DELETE action: with
\* PRAGMA foreign_keys=ON a statement that would leave a journal row without
\* its inviter fails with IntegrityError.
InviterReferenced(j, inviter_id) ==
    \E i \in Ids(j) : j[i].inviter_id = inviter_id

\* --------------------------------------------------- insert_journal_event
JournalRow(event_time, event_type, tg_user_id, username, name, inviter_id, status, note, telegram_update_id) ==
    [event_time |-> event_time, event_type |-> event_type,
     tg_user_id |-> tg_user_id, username |-> username, name |-> name,
     inviter_id |-> inviter_id, status |-> status, note |-> note,
     telegram_update_id |-> telegram_update_id]

\* (mutant) the count without `inviter_id != ?`
PreviousInvitesAny(j, tg_user_id, inviter_id) ==
    Cardinality({i \in Ids(j) :
        /\ j[i].tg_user_id = tg_user_id
        /\ j[i].event_type = "subscribe"
        /\ j[i].inviter_id # None})

\* SELECT COUNT(*) ... AND inviter_id IS NOT NULL AND inviter_id != ?
PreviousInvites(j, tg_user_id, inviter_id) ==
    Cardinality({i \in Ids(j) :
        /\ j[i].tg_user_id = tg_user_id
        /\ j[i].event_type = "subscribe"
        /\ j[i].inviter_id # None
        /\ j[i].inviter_id # inviter_id})

\* The note that is stored: 'repeat' is appended for a repeat invitation.
RepeatNote(j, event_type, tg_user_id, inviter_id, note) ==
    IF event_type = "subscribe" /\ Truthy(inviter_id)
       /\ PreviousInvites(j, tg_user_id, inviter_id) > 0
    THEN IF note = NoneStr THEN "repeat" ELSE note \o ",repeat"
    ELSE note

\* SELECT id FROM journal WHERE telegram_update_id = ?
ExistingId(j, update_id) ==
    IF \E i \in Ids(j) : j[i].telegram_update_id = update_id
    THEN CHOOSE i \in Ids(j) : j[i].telegram_update_id = update_id
    ELSE None

\* (mutant) a plain INSERT on a table without the duplicate check.
InsertPlain(j, row) == Append(j, row)

\* (mutant) INSERT OR REPLACE: the conflicting row is overwritten.
InsertOrReplace(j, row) ==
    IF \E i \in Ids(j) : j[i].telegram_update_id = row.telegram_update_id
    THEN [i \in Ids(j) |-> IF j[i].telegram_update_id = row.telegram_update_id
                           THEN row ELSE j[i]]
    ELSE Append(j, row)

\* INSERT OR IGNORE INTO journal: the row is appended unless the UNIQUE
\* index on telegram_update_id rejects it, and then nothing is written.
InsertOrIgnore(j, row) ==
    IF DeliveryConflict(j, row.telegram_update_id) THEN j ELSE Append(j, row)

\* The journal after insert_journal_event's write of `row` (its note already
\* decided): the idempotent branch for a truthy telegram_update_id, the plain
\* INSERT with telegram_update_id NULL otherwise.
JournalAfterInsert(j, row) ==
    IF Truthy(row.telegram_update_id)
    THEN InsertOrIgnore(j, row)
    ELSE Append(j, [row EXCEPT !.telegram_update_id = None])

\* The id insert_journal_event returns: the existing row's id when the insert
\* was ignored (rowcount = 0), lastrowid otherwise.
InsertResult(j, row) ==
    IF Truthy(row.telegram_update_id) /\ InsertOrIgnore(j, row) = j
    THEN ExistingId(j, row.telegram_update_id)
    ELSE Len(j) + 1

\* History of the last two calls made with one telegram_update_id.
LastTwo(h, call) == IF Len(h) < 2 THEN Append(h, call) ELSE <<h[2], call>>

\* insert_journal_event as one call on the store: `src` is the delivery the
\* call was made for (history only).
insert_journal_event(event_type, tg_user_id, username, name, inviter_id, status, note, telegram_update_id, src) ==
    LET stored == RepeatNote(journal, event_type, tg_user_id, inviter_id, note)
        row == JournalRow(now, event_type, tg_user_id, username, name,
                          inviter_id, status, stored, telegram_update_id)
        j2 == JournalAfterInsert(journal, row)
    IN  /\ Len(j2) <= MaxJournal
        /\ journal' = j2
        /\ origin' = IF Len(j2) > Len(journal) THEN Append(origin, src) ELSE origin
        /\ returned' = IF Truthy(telegram_update_id)
                       THEN [returned EXCEPT ![telegram_update_id] =
                                LastTwo(@, [id |-> InsertResult(journal, row),
                                            event_type |-> event_type])]
                       ELSE returned

\* ------------------------------------------------------------ retention
\* get_subscriptions_for_retention_check: the ids of the rows
\*   WHERE event_type = 'subscribe'
\*     AND date(event_time) = date(check_date, '-retention_days days')
\*     AND NOT EXISTS (SELECT 1 FROM retention_checks rc WHERE rc.journal_id = j.id)
get_subscriptions_for_retention_check(j, rc, retention_days, check_date) ==
    {i \in Ids(j) :
        /\ j[i].event_type = "subscribe"
        /\ DayOf(j[i].event_time) = check_date - retention_days
        /\ ~ \E c \in rc : c.journal_id = i}

\* (mutant) `event_time >= ?`
check_user_retention_ge(j, tg_user_id, subscription_time) ==
    IF \E i \in Ids(j) : /\ j[i].tg_user_id = tg_user_id
                         /\ j[i].event_type = "unsubscribe"
                         /\ j[i].event_time >= subscription_time
    THEN "not_retained" ELSE "retained"

\* (mutant) the unsubscribe events of every subject are counted
check_user_retention_any(j, tg_user_id, subscription_time) ==
    IF \E i \in Ids(j) : /\ j[i].event_type = "unsubscribe"
                         /\ j[i].event_time > subscription_time
    THEN "not_retained" ELSE "retained"

\* check_user_retention: SELECT COUNT(*) FROM journal WHERE tg_user_id = ?
\*   AND event_type = 'unsubscribe' AND event_time > ?
check_user_retention(j, tg_user_id, subscription_time) ==
    LET unsubscribe_count ==
            Cardinality({i \in Ids(j) :
                /\ j[i].tg_user_id = tg_user_id
                /\ j[i].event_type = "unsubscribe"
                /\ j[i].event_time > subscription_time})
    IN  IF unsubscribe_count > 0 THEN "not_retained" ELSE "retained"

\* The verdict get_retention_stats computes in its loop for subscription i.
Verdict(j, i) == check_user_retention(j, j[i].tg_user_id, j[i].event_time)

\* get_retention_stats(retention_days, check_date): the numbers it returns.
get_retention_stats(j, rc, retention_days, check_date) ==
    LET subscriptions_to_check ==
            get_subscriptions_for_retention_check(j, rc, retention_days, check_date)
    IN  [total_subscriptions |-> Cardinality(subscriptions_to_check),
         retained |-> Cardinality({i \in subscriptions_to_check : Verdict(j, i) = "retained"}),
         not_retained |-> Cardinality({i \in subscriptions_to_check :
                                          Verdict(j, i) = "not_retained"})]

\* (mutant) INSERT OR REPLACE: the stored verdict is overwritten.
ChecksAfterReplace(rc, journal_id, check_date, result) ==
    {c \in rc : ~(c.journal_id = journal_id /\ c.check_date = check_date)}
        \cup {[journal_id |-> journal_id, check_date |-> check_date, result |-> result]}

\* The retention_checks table after insert_retention_check: the INSERT adds
\* the row unless the UNIQUE index rejects it; the IntegrityError is swallowed.
ChecksAfterInsert(rc, journal_id, check_date, result) ==
    IF CheckConflict(rc, journal_id, check_date) THEN rc
    ELSE rc \cup {[journal_id |-> journal_id, check_date |-> check_date,
                   result |-> result]}

\* Whether insert_retention_check raises: the only failure of the INSERT, the
\* IntegrityError, is caught (db.py:333).
InsertCheckRaises(rc, journal_id, check_date) == FALSE

\* ------------------------------------------------ the event classifier
\* `if not event_type: return` (events.py:73, 208): a classification is
\* tracked unless it is None.
\* (mutant) every classification is tracked
TrackedAlways(event_type) == TRUE

Tracked(event_type) == event_type # NoneStr

\* The chat kinds and the member statuses of the transport (aiogram's
\* ChatType and ChatMemberStatus values; "kicked" is BANNED).
ChatKinds == {"channel", "group", "supergroup", "private"}
Statuses == {"creator", "administrator", "member", "restricted", "left", "kicked"}

\* (mutant) the group rules for "group" only
_determine_event_type_group_only(chat_type, old_status, new_status) ==
    IF chat_type = "channel" THEN
        IF old_status = "left" /\ new_status = "member" THEN "subscribe"
        ELSE IF old_status = "member" /\ new_status = "left" THEN "unsubscribe"
        ELSE IF old_status = "member" /\ new_status = "kicked" THEN "channel_banned"
        ELSE IF old_status = "kicked" /\ new_status = "member" THEN "channel_unbanned"
        ELSE NoneStr
    ELSE IF chat_type = "group" THEN
        IF old_status = "left" /\ new_status \in {"member", "restricted"} THEN "group_join"
        ELSE IF old_status \in {"member", "restricted"} /\ new_status = "left" THEN "group_leave"
        ELSE IF old_status \in {"member", "restricted"} /\ new_status = "kicked" THEN "group_banned"
        ELSE IF old_status = "kicked" /\ new_status \in {"member", "restricted"} THEN "group_unbanned"
        ELSE IF old_status = "member" /\ new_status = "administrator" THEN "group_promoted"
        ELSE IF old_status = "administrator" /\ new_status = "member" THEN "group_demoted"
        ELSE NoneStr
    ELSE IF chat_type = "private" THEN
        IF old_status = "left" /\ new_status = "member" THEN "private_unblocked"
        ELSE IF old_status = "member" /\ new_status = "kicked" THEN "private_blocked"
        ELSE NoneStr
    ELSE NoneStr

\* (mutant) a bot classifier that takes only left -> member for bot_added
_determine_bot_event_type_member_only(chat_type, old_status, new_status) ==
    IF old_status = "left" /\ new_status = "member" THEN "bot_added"
    ELSE IF old_status \in {"member", "administrator"} /\ new_status = "left" THEN "bot_removed"
    ELSE IF old_status \in {"member", "administrator"} /\ new_status = "kicked" THEN "bot_banned"
    ELSE IF old_status = "kicked" /\ new_status \in {"member", "administrator"} THEN "bot_unbanned"
    ELSE IF old_status = "member" /\ new_status = "administrator" THEN "bot_promoted"
    ELSE IF old_status = "administrator" /\ new_status = "member" THEN "bot_demoted"
    ELSE NoneStr

\* _determine_bot_event_type: the same rules for every chat type.
_determine_bot_event_type(chat_type, old_status, new_status) ==
    IF old_status = "left" /\ new_status \in {"member", "administrator"} THEN "bot_added"
    ELSE IF old_status \in {"member", "administrator"} /\ new_status = "left" THEN "bot_removed"
    ELSE IF old_status \in {"member", "administrator"} /\ new_status = "kicked" THEN "bot_banned"
    ELSE IF old_status = "kicked" /\ new_status \in {"member", "administrator"} THEN "bot_unbanned"
    ELSE IF old_status = "member" /\ new_status = "administrator" THEN "bot_promoted"
    ELSE IF old_status = "administrator" /\ new_status = "member" THEN "bot_demoted"
    ELSE NoneStr

\* aiogram's ChatMemberStatus values: "creator", "administrator", "member",
\* "restricted", "left", "kicked" (BANNED).
_determine_event_type(chat_type, old_status, new_status) ==
    IF chat_type = "channel" THEN
        IF old_status = "left" /\ new_status = "member" THEN "subscribe"
        ELSE IF old_status = "member" /\ new_status = "left" THEN "unsubscribe"
        ELSE IF old_status = "member" /\ new_status = "kicked" THEN "channel_banned"
        ELSE IF old_status = "kicked" /\ new_status = "member" THEN "channel_unbanned"
        ELSE NoneStr
    ELSE IF chat_type \in {"group", "supergroup"} THEN
        IF old_status = "left" /\ new_status \in {"member", "restricted"} THEN "group_join"
        ELSE IF old_status \in {"member", "restricted"} /\ new_status = "left" THEN "group_leave"
        ELSE IF old_status \in {"member", "restricted"} /\ new_status = "kicked" THEN "group_banned"
        ELSE IF old_status = "kicked" /\ new_status \in {"member", "restricted"} THEN "group_unbanned"
        ELSE IF old_status = "member" /\ new_status = "administrator" THEN "group_promoted"
        ELSE IF old_status = "administrator" /\ new_status = "member" THEN "group_demoted"
        ELSE NoneStr
    ELSE IF chat_type = "private" THEN
        IF old_status = "left" /\ new_status = "member" THEN "private_unblocked"
        ELSE IF old_status = "member" /\ new_status = "kicked" THEN "private_blocked"
        ELSE NoneStr
    ELSE NoneStr

\* ------------------------------------------------------------- inviters
InviterIds == {r.id : r \in inviters}

\* SELECT id FROM inviters WHERE invite_link = ?  (fetchone: the first row)
get_inviter_by_link(inv, invite_link) ==
    LET hit == {r \in inv : r.invite_link # NoneStr /\ r.invite_link = invite_link}
    IN  IF hit = {} THEN None
        ELSE (CHOOSE r \in hit : \A q \in hit : r.id <= q.id).id

\* `if username and not username.startswith('@'): username = '@' + username`
NormalizeUsername(username) ==
    CASE username = "ann" -> "@ann"
      [] username = "bob" -> "@bob"
      [] OTHER -> username

\* SELECT id FROM inviters WHERE username = ? OR name = ?: the ids of the
\* matching rows (a NULL username matches nothing).  fetchone() returns one
\* of them; the statement has no ORDER BY, so which one is the query plan's.
FindInviter(inv, name, username) ==
    {r.id : r \in {q \in inv : (username # NoneStr /\ q.username = username) \/ q.name = name}}

\* upsert_inviter(name, username, invite_link), returning `result`.
upsert_inviter(name, username0, invite_link, result) ==
    LET username == NormalizeUsername(username0)
        existing == FindInviter(inviters, name, username)
    IN  IF existing # {}
        THEN /\ result \in existing
             /\ inviters' = {IF r.id = result
                             THEN [id |-> r.id, name |-> name, username |-> username,
                                   invite_link |-> invite_link]
                             ELSE r : r \in inviters}
             /\ UNCHANGED inviter_seq
        ELSE /\ inviter_seq < MaxInviters
             /\ result = inviter_seq + 1
             /\ inviters' = inviters \cup {[id |-> inviter_seq + 1, name |-> name,
                                            username |-> username,
                                            invite_link |-> invite_link]}
             /\ inviter_seq' = inviter_seq + 1

\* The inviters table after DELETE FROM inviters WHERE id = ?: a referenced
\* inviter is kept (the statement fails, delete_invite returns False).
InvitersAfterDelete(inv, j, invite_id) ==
    IF InviterReferenced(j, invite_id) THEN inv ELSE {r \in inv : r.id # invite_id}

\* ---------------------------------------------------------------- users
\* (mutant) SET username = excluded.username, name = excluded.name
CoalesceIncoming(a, b) == a

\* (mutant) SET username = COALESCE(username, excluded.username), ...
CoalesceStored(a, b) == IF b # NoneStr THEN b ELSE a

\* INSERT INTO users ... ON CONFLICT(tg_user_id) DO UPDATE SET
\*   username = COALESCE(excluded.username, username),
\*   name = COALESCE(excluded.name, name)
Coalesce(a, b) == IF a # NoneStr THEN a ELSE b

UsersAfterUpsert(us, tg_user_id, username, name) ==
    IF \E r \in us : r.tg_user_id = tg_user_id
    THEN {IF r.tg_user_id = tg_user_id
          THEN [r EXCEPT !.username = Coalesce(username, r.username),
                         !.name = Coalesce(name, r.name)]
          ELSE r : r \in us}
    ELSE us \cup {[id |-> Cardinality(us) + 1, tg_user_id |-> tg_user_id,
                   username |-> username, name |-> name]}

\* find_user: by "@username" (the "@" cut off) or by the decimal user id, the
\* first journal row that matches.  A query is [by |-> "username" | "id", v].
find_user(j, query) ==
    LET hit == {i \in Ids(j) :
                   IF query.by = "username" THEN j[i].username = query.name
                   ELSE j[i].tg_user_id = query.id}
    IN  IF hit = {} THEN None ELSE CHOOSE i \in hit : \A k \in hit : i <= k

\* --------------------------------------------------- the transport's stream
\* The chat_member updates the transport delivers, each any number of times
\* (at-least-once delivery); a delivery is named by its index.
UsernameOf(u) == IF u = 1 THEN "alex" ELSE NoneStr
NameOf(u) == IF u = 1 THEN "Alex" ELSE "Maria"

Update(chat_type, u, old_status, new_status, invite_link) ==
    [chat_type |-> chat_type, user |-> u, old_status |-> old_status,
     new_status |-> new_status, invite_link |-> invite_link]

Updates == <<
    Update("channel", 1, "left", "member", "t1"),
    Update("channel", 1, "member", "left", NoneStr),
    Update("channel", 2, "left", "member", "t2"),
    Update("channel", 2, "member", "left", NoneStr),
    Update("channel", 2, "restricted", "member", NoneStr) >>

\* ------------------------------------------------------------- callers
\* The callers of the store: handlers, or process instances sharing the file.
Procs == {1, 2}

\* A caller that is in no insert_journal_event call.
NoCall ==
    [pc |-> "idle", event_type |-> NoneStr, tg_user_id |-> None, inviter_id |-> None,
     telegram_update_id |-> None, event_time |-> None, note |-> NoneStr,
     rowcount |-> None, lastrowid |-> None, result |-> None, raised |-> FALSE,
     overlap |-> FALSE]

\* A caller that is in no get_retention_stats run.
NoRun ==
    [pc |-> "idle", retention_days |-> None, check_date |-> None, todo |-> <<>>,
     total_subscriptions |-> 0, retained_count |-> 0, not_retained_count |-> 0,
     counted |-> <<>>, overlap |-> FALSE]

Init ==
    /\ now = 0
    /\ journal = <<>>
    /\ origin = <<>>
    /\ returned = [d \in UpdateIds |-> <<>>]
    /\ retention_checks = {}
    /\ inviters = {}
    /\ inviter_seq = 0
    /\ users = {}
    /\ last = Idle
    /\ calls = [p \in Procs |-> NoCall]
    /\ runs = [p \in Procs |-> NoRun]
    /\ ADMIN_IDS = EnvAdminIds
    /\ fsm = [u \in TgUsers |-> NoDialog]
    /\ scheduler = NewScheduler

\* The clock advances between operations.
Tick(max_time) ==
    /\ now < max_time
    /\ now' = now + 1
    /\ UNCHANGED <<journal, origin, returned, retention_checks, inviters,
                   inviter_seq, users, last, calls, runs,
                   ADMIN_IDS, fsm, scheduler>>

\* A caller appends an event through the store's API (as
\* handle_create_test_data does, commands.py:838): the inviter is one the
\* caller got from the store.
AppendEvent(subjects, update_ids) ==
    \E event_type \in {"subscribe", "unsubscribe"}, u \in subjects,
       inviter_id \in InviterIds \cup {None}, update_id \in update_ids \cup {None} :
        /\ insert_journal_event(event_type, u, UsernameOf(u), NameOf(u), inviter_id,
                                IF event_type = "subscribe" THEN "subscribed" ELSE "left",
                                NoneStr, update_id, None)
        /\ UNCHANGED <<now, retention_checks, inviters, inviter_seq, users, last, calls, runs,
                   ADMIN_IDS, fsm, scheduler>>

\* The value handle_chat_member_update reads from chat_member.invite_link
\* (events.py:63) is the transport's ChatInviteLink object, whose attribute
\* invite_link holds the link text (adapter.py:193 reads the text from an
\* object of the same class); a notification's invite_link in this model is
\* that text.  The handler hands the object itself to get_inviter_by_link
\* (events.py:82), which binds it to the `?` of its SELECT (db.py:136-139).
InviteLinkType == "ChatInviteLink"

\* The Python types sqlite3 binds to a parameter.
Bindable == {"NoneType", "int", "float", "str", "bytes"}

\* conn.execute raises on a parameter of any other type.
BindRaises(type) == type \notin Bindable

\* events.py:78-88: inviter_id after the lookup, and whether the lookup
\* raised.  No link: no lookup.
resolve_inviter(inv, invite_link) ==
    IF invite_link = NoneStr THEN [raised |-> FALSE, inviter_id |-> None]
    ELSE IF BindRaises(InviteLinkType) THEN [raised |-> TRUE, inviter_id |-> None]
    ELSE [raised |-> FALSE, inviter_id |-> get_inviter_by_link(inv, invite_link)]

\* (mutant) a lookup outside any try block: what it raises ends the handler.
LookupEscapesUncaught(lookup) == lookup.raised

\* Whether what the lookup raised leaves the lookup's own try block: its
\* `except Exception` (events.py:87-88) catches it and logs.
LookupEscapes(lookup) == FALSE

\* handle_chat_member_update for the notification upd; d is the delivery it
\* came with (history only).  update_id is None (events.py:68).
handle_chat_member_update(upd, d) ==
    LET event_type == _determine_event_type(upd.chat_type, upd.old_status, upd.new_status)
        update_id == None
        lookup == resolve_inviter(inviters, upd.invite_link)
    IN  IF ~ Tracked(event_type) \/ LookupEscapes(lookup)
        THEN UNCHANGED <<journal, origin, returned>>
        ELSE insert_journal_event(event_type, upd.user, UsernameOf(upd.user),
                                  NameOf(upd.user), lookup.inviter_id, upd.new_status,
                                  NoneStr, update_id, d)

\* handle_chat_member_update on delivery d of the stream.
HandleChatMember ==
    \E d \in DOMAIN Updates :
        /\ handle_chat_member_update(Updates[d], d)
        /\ UNCHANGED <<now, retention_checks, inviters, inviter_seq, users, last, calls, runs,
                   ADMIN_IDS, fsm, scheduler>>

UpsertSubject(subjects) ==
    \E u \in subjects, known \in BOOLEAN :
        /\ users' = UsersAfterUpsert(users, u,
                                     IF known THEN UsernameOf(u) ELSE NoneStr,
                                     IF known THEN NameOf(u) ELSE NoneStr)
        /\ UNCHANGED <<now, journal, origin, returned, retention_checks, inviters,
                       inviter_seq, last, calls, runs,
                   ADMIN_IDS, fsm, scheduler>>

LinkOf(name) == IF name = "Ann" THEN "t1" ELSE "t2"

UpsertInviter(links) ==
    \E name \in InviterNames, result \in 1..MaxInviters :
      \E invite_link \in links \cap {NoneStr, LinkOf(name)} :
        /\ upsert_inviter(name, NoneStr, invite_link, result)
        /\ UNCHANGED <<now, journal, origin, returned, retention_checks, users, last, calls, runs,
                   ADMIN_IDS, fsm, scheduler>>

\* InviteManager.delete_invite(invite_id)
DeleteInvite ==
    \E invite_id \in 1..MaxInviters :
        /\ inviters' = InvitersAfterDelete(inviters, journal, invite_id)
        /\ UNCHANGED <<now, journal, origin, returned, retention_checks, inviter_seq,
                       users, last, calls, runs,
                   ADMIN_IDS, fsm, scheduler>>

\* UserManager.add_user_manual(user_data)
AddUserManual(subjects) ==
    \E u \in subjects, inviter_name \in InviterNames \cup {NoneStr} :
        LET named == {r \in inviters : r.name = inviter_name}
            inviter_id == IF inviter_name # NoneStr /\ named # {}
                          THEN (CHOOSE r \in named : \A q \in named : r.id <= q.id).id
                          ELSE None
        IN  /\ users' = UsersAfterUpsert(users, u, UsernameOf(u), NameOf(u))
            /\ insert_journal_event("manual_add", u, UsernameOf(u), NameOf(u), inviter_id,
                                    "subscribed", "manually_added", None, None)
            /\ UNCHANGED <<now, retention_checks, inviters, inviter_seq, last, calls, runs,
                   ADMIN_IDS, fsm, scheduler>>

\* UserManager.delete_user(username_or_id)
DeleteUser ==
    \E query \in {[by |-> "id", id |-> u, name |-> NoneStr] : u \in TgUsers}
                 \cup {[by |-> "username", id |-> None, name |-> "alex"]} :
        LET found == find_user(journal, query)
        IN  /\ IF found = None
               THEN UNCHANGED <<journal, origin, returned>>
               ELSE insert_journal_event("manual_delete", journal[found].tg_user_id,
                                         journal[found].username, journal[found].name,
                                         None, "deleted", "manually_deleted", None, None)
            /\ UNCHANGED <<now, retention_checks, inviters, inviter_seq, users, last, calls, runs,
                   ADMIN_IDS, fsm, scheduler>>

\* The ledger under ingestion: the store's API, the chat_member handler and
\* the inviter registry it resolves invite links against.
Next ==
    \/ Tick(MaxTime)
    \/ AppendEvent(TgUsers, UpdateIds)
    \/ HandleChatMember
    \/ UpsertInviter(InviteLinks)
    \/ DeleteInvite

Spec == Init /\ [][Next]_vars

\* --------------------------------------------------- the retention batch
\* The days on which something happens in the retention scenarios: a day D,
\* D+3, D+7 and the day after.
Calendar == {0, 3, 7, 8}
Windows == {3, 7}

FirstInviter == [id |-> 1, name |-> "Ann", username |-> NoneStr, invite_link |-> "t1"]

\* A store whose inviter registry holds one inviter.
InitRetention ==
    /\ now = 0
    /\ journal = <<>>
    /\ origin = <<>>
    /\ returned = [d \in UpdateIds |-> <<>>]
    /\ retention_checks = {}
    /\ inviters = {FirstInviter}
    /\ inviter_seq = 1
    /\ users = {}
    /\ last = Idle
    /\ calls = [p \in Procs |-> NoCall]
    /\ runs = [p \in Procs |-> NoRun]
    /\ ADMIN_IDS = EnvAdminIds
    /\ fsm = [u \in TgUsers |-> NoDialog]
    /\ scheduler = NewScheduler

TickInDay ==
    /\ DayOf(now + 1) = DayOf(now)
    /\ now' = now + 1
    /\ UNCHANGED <<journal, origin, returned, retention_checks, inviters,
                   inviter_seq, users, last, calls, runs,
                   ADMIN_IDS, fsm, scheduler>>

NextDay ==
    \E d \in Calendar :
        /\ d > DayOf(now)
        /\ now' = d * TicksPerDay
        /\ UNCHANGED <<journal, origin, returned, retention_checks, inviters,
                       inviter_seq, users, last, calls, runs,
                   ADMIN_IDS, fsm, scheduler>>

\* insert_retention_check(journal_id, check_date, result), for a subscription
\* of the journal and the check date of one of the windows.
InsertRetentionCheck ==
    \E journal_id \in Ids(journal), w \in Windows, result \in {"retained", "not_retained"} :
        LET check_date == DayOf(journal[journal_id].event_time) + w
        IN  /\ journal[journal_id].event_type = "subscribe"
            /\ retention_checks' = ChecksAfterInsert(retention_checks, journal_id,
                                                     check_date, result)
            /\ last' = [op |-> "insert_retention_check",
                        differs |-> \E c \in retention_checks :
                                        /\ c.journal_id = journal_id
                                        /\ c.check_date = check_date
                                        /\ c.result # result,
                        raised |-> InsertCheckRaises(retention_checks, journal_id,
                                                     check_date)]
            /\ UNCHANGED <<now, journal, origin, returned, inviters, inviter_seq, users, calls, runs,
                   ADMIN_IDS, fsm, scheduler>>

\* evaluate(window, as_of): get_retention_stats for a window and a check date
\* that is today or in the past.
Evaluate(as_of_dates) ==
    \E retention_days \in Windows, check_date \in as_of_dates :
        /\ check_date <= DayOf(now)
        /\ last' = [op |-> "evaluate", retention_days |-> retention_days,
                    check_date |-> check_date, past |-> check_date < DayOf(now),
                    stats |-> get_retention_stats(journal, retention_checks,
                                                  retention_days, check_date)]
        /\ UNCHANGED <<now, journal, origin, returned, retention_checks, inviters,
                       inviter_seq, users, calls, runs,
                   ADMIN_IDS, fsm, scheduler>>

\* Every operation that touches the store, on one subject and one delivery id.
NextStore ==
    \/ Tick(1)
    \/ AppendEvent({1}, {1})
    \/ HandleChatMember
    \/ UpsertSubject({1})
    \/ UpsertInviter(InviteLinks \cup {NoneStr})
    \/ DeleteInvite
    \/ AddUserManual({1})
    \/ DeleteUser
    \/ Evaluate({0})

SpecStore == Init /\ [][NextStore]_vars

\* A caller appends a subscribe of subject 1 that it attributes to an inviter
\* of the registry (as handle_create_test_data does, commands.py:838).
AppendInvited ==
    \E inviter_id \in InviterIds :
        /\ insert_journal_event("subscribe", 1, UsernameOf(1), NameOf(1), inviter_id,
                                "subscribed", NoneStr, None, None)
        /\ UNCHANGED <<now, retention_checks, inviters, inviter_seq, users, last, calls, runs,
                   ADMIN_IDS, fsm, scheduler>>

NextRetention ==
    \/ TickInDay
    \/ NextDay
    \/ HandleChatMember
    \/ AppendInvited
    \/ InsertRetentionCheck
    \/ Evaluate({3, 7})

SpecRetention == InitRetention /\ [][NextRetention]_vars

\* ------------------------------------- insert_journal_event, step by step
\* One call as the sequence of its statements, each on the caller's own
\* connection (get_connection opens one per call):
\*   "started"  event_time is read (db.py:208)
\*   "checked"  the repeat SELECT has run (db.py:212-219)
\*   "written"  the INSERT [OR IGNORE] has run inside the implicit
\*              transaction, which holds the database's write lock
\*   "done"     the SELECT of the existing id (rowcount = 0) and the commit
\*              have run; the call has returned or raised.
\* Another connection reads the committed journal only.
InCall(c) == c.pc \in {"started", "checked", "written"}

\* (mutant) a store without a write lock
WriteLockIgnored(cs, p) == TRUE

\* SQLite admits one write transaction at a time: the INSERT of caller p
\* waits (busy handler of sqlite3.connect) until no other connection is
\* between its INSERT and its commit.
WriteLockFree(cs, p) == \A q \in Procs \ {p} : cs[q].pc # "written"

\* The row a call binds to its INSERT.
RowOf(c) ==
    JournalRow(c.event_time, c.event_type, c.tg_user_id, UsernameOf(c.tg_user_id),
               NameOf(c.tg_user_id), c.inviter_id,
               IF c.event_type = "subscribe" THEN "subscribed" ELSE "left",
               c.note,
               IF Truthy(c.telegram_update_id) THEN c.telegram_update_id ELSE None)

\* The call is made and reads the clock.
BeginInsert(update_ids) ==
    \E p \in Procs, event_type \in {"subscribe", "unsubscribe"},
       inviter_id \in InviterIds \cup {None}, update_id \in update_ids \cup {None} :
        /\ ~ InCall(calls[p])
        /\ calls' = [q \in Procs |->
                        IF q = p
                        THEN [NoCall EXCEPT
                                !.pc = "started", !.event_type = event_type,
                                !.tg_user_id = 1, !.inviter_id = inviter_id,
                                !.telegram_update_id = update_id, !.event_time = now,
                                !.overlap = \E r \in Procs \ {p} :
                                               /\ InCall(calls[r])
                                               /\ calls[r].telegram_update_id = update_id]
                        ELSE IF InCall(calls[q]) /\ calls[q].telegram_update_id = update_id
                        THEN [calls[q] EXCEPT !.overlap = TRUE]
                        ELSE calls[q]]
        /\ UNCHANGED <<now, journal, origin, returned, retention_checks, inviters,
                       inviter_seq, users, last, runs,
                   ADMIN_IDS, fsm, scheduler>>

\* The repeat-invitation SELECT and the note it decides.
RepeatSelect ==
    \E p \in Procs :
        /\ calls[p].pc = "started"
        /\ calls' = [calls EXCEPT
                        ![p].pc = "checked",
                        ![p].note = RepeatNote(journal, calls[p].event_type,
                                               calls[p].tg_user_id, calls[p].inviter_id,
                                               calls[p].note)]
        /\ UNCHANGED <<now, journal, origin, returned, retention_checks, inviters,
                       inviter_seq, users, last, runs,
                   ADMIN_IDS, fsm, scheduler>>

\* The INSERT OR IGNORE (truthy telegram_update_id) or the plain INSERT.
InsertStatement ==
    \E p \in Procs :
        LET j2 == JournalAfterInsert(journal, RowOf(calls[p]))
        IN  /\ calls[p].pc = "checked"
            /\ WriteLockFree(calls, p)
            /\ Len(j2) <= MaxJournal
            /\ calls' = [calls EXCEPT
                            ![p].pc = "written",
                            ![p].rowcount = Len(j2) - Len(journal),
                            ![p].lastrowid = Len(j2)]
            /\ UNCHANGED <<now, journal, origin, returned, retention_checks, inviters,
                           inviter_seq, users, last, runs,
                   ADMIN_IDS, fsm, scheduler>>

\* rowcount = 0: SELECT id ... WHERE telegram_update_id = ?, commit, return
\* the existing id (RuntimeError if there is none); otherwise commit and
\* return lastrowid.
CommitInsert ==
    \E p \in Procs :
        LET c == calls[p]
            existing == ExistingId(journal, c.telegram_update_id)
        IN  /\ c.pc = "written"
            /\ IF c.rowcount = 0
               THEN /\ calls' = [calls EXCEPT ![p].pc = "done",
                                              ![p].result = existing,
                                              ![p].raised = (existing = None)]
                    /\ UNCHANGED <<journal, origin>>
               ELSE /\ journal' = Append(journal, RowOf(c))
                    /\ origin' = Append(origin, None)
                    /\ calls' = [calls EXCEPT ![p].pc = "done",
                                              ![p].result = c.lastrowid]
            /\ UNCHANGED <<now, returned, retention_checks, inviters, inviter_seq,
                           users, last, runs,
                   ADMIN_IDS, fsm, scheduler>>

NextConc ==
    \/ Tick(MaxTime)
    \/ BeginInsert({1})
    \/ RepeatSelect
    \/ InsertStatement
    \/ CommitInsert

SpecConc == InitRetention /\ [][NextConc]_vars

\* ----------------------------------------- get_retention_stats, step by step
\* One run as the sequence of its store reads, each on a connection of its
\* own: the SELECT of the candidates (db.py:507), then one
\* check_user_retention per candidate (db.py:520-525); the counts are local
\* to the run.
RECURSIVE InIdOrder(_)
\* The rows of a SELECT on journal, as the list the cursor yields (id order).
InIdOrder(S) ==
    IF S = {} THEN <<>>
    ELSE LET i == CHOOSE x \in S : \A y \in S : x <= y
         IN  <<i>> \o InIdOrder(S \ {i})

InRun(r) == r.pc = "selected"

\* Two subscriptions of day 0, seen on day 3; or one of them and the
\* subject's unsubscribe event.
CohortJournals ==
    LET sub(u, t, inviter_id) == JournalRow(t, "subscribe", u, UsernameOf(u), NameOf(u), inviter_id, "member", NoneStr, None)
        unsub(u, t) == JournalRow(t, "unsubscribe", u, UsernameOf(u), NameOf(u), None, "left", NoneStr, None)
    IN  { <<sub(1, 0, 1), sub(2, 1, None)>>, <<sub(1, 0, 1), unsub(1, 1)>> }

InitCohort ==
    /\ now = 3 * TicksPerDay
    /\ journal \in CohortJournals
    /\ origin = <<None, None>>
    /\ returned = [d \in UpdateIds |-> <<>>]
    /\ retention_checks = {}
    /\ inviters = {FirstInviter}
    /\ inviter_seq = 1
    /\ users = {}
    /\ last = Idle
    /\ calls = [p \in Procs |-> NoCall]
    /\ runs = [p \in Procs |-> NoRun]
    /\ ADMIN_IDS = EnvAdminIds
    /\ fsm = [u \in TgUsers |-> NoDialog]
    /\ scheduler = NewScheduler

\* get_retention_stats is called: the candidates are selected; with none the
\* run returns its zeros at once.
BeginEvaluate(as_of_dates) ==
    \E p \in Procs, retention_days \in Windows, check_date \in as_of_dates :
        LET subscriptions_to_check ==
                InIdOrder(get_subscriptions_for_retention_check(
                              journal, retention_checks, retention_days, check_date))
            meets(r) == InRun(r) /\ r.retention_days = retention_days
                                 /\ r.check_date = check_date
        IN  /\ check_date <= DayOf(now)
            /\ ~ InRun(runs[p])
            /\ runs' = [q \in Procs |->
                          IF q = p
                          THEN [NoRun EXCEPT
                                  !.pc = IF subscriptions_to_check = <<>>
                                         THEN "done" ELSE "selected",
                                  !.retention_days = retention_days,
                                  !.check_date = check_date,
                                  !.todo = subscriptions_to_check,
                                  !.total_subscriptions = Len(subscriptions_to_check),
                                  !.overlap = \E r \in Procs \ {p} : meets(runs[r])]
                          ELSE IF meets(runs[q]) THEN [runs[q] EXCEPT !.overlap = TRUE]
                          ELSE runs[q]]
            /\ UNCHANGED <<now, journal, origin, returned, retention_checks, inviters,
                           inviter_seq, users, last, calls,
                   ADMIN_IDS, fsm, scheduler>>

\* One turn of the loop: check_user_retention for the next candidate; after
\* the last one the run returns its counts.
CheckSubscription ==
    \E p \in Procs :
        LET r == runs[p]
            i == Head(r.todo)
            retention_result == check_user_retention(journal, journal[i].tg_user_id,
                                                     journal[i].event_time)
        IN  /\ InRun(r)
            /\ runs' = [runs EXCEPT
                          ![p].todo = Tail(r.todo),
                          ![p].counted = Append(r.counted, i),
                          ![p].retained_count =
                              IF retention_result = "retained" THEN @ + 1 ELSE @,
                          ![p].not_retained_count =
                              IF retention_result = "not_retained" THEN @ + 1 ELSE @,
                          ![p].pc = IF Tail(r.todo) = <<>> THEN "done" ELSE "selected"]
            /\ UNCHANGED <<now, journal, origin, returned, retention_checks, inviters,
                           inviter_seq, users, last, calls,
                   ADMIN_IDS, fsm, scheduler>>

NextEvaluate ==
    \/ BeginEvaluate({3})
    \/ CheckSubscription
    \/ InsertRetentionCheck

SpecEvaluate == InitCohort /\ [][NextEvaluate]_vars

\* ------------------------------------------------- the two event handlers
\* The notifications of the transport: every chat kind and every pair of
\* different statuses, for subject 1; a channel join comes through invite
\* link "t1", a supergroup join through invite link "t2".
Notifications ==
    {Update(chat_type, 1, pair[1], pair[2],
            IF pair[1] = "left" /\ pair[2] = "member"
            THEN (CASE chat_type = "channel" -> "t1"
                    [] chat_type = "supergroup" -> "t2"
                    [] OTHER -> NoneStr)
            ELSE NoneStr) :
        chat_type \in ChatKinds,
        pair \in {pr \in Statuses \X Statuses : pr[1] # pr[2]}}

\* The names handle_bot_chat_member_update has bound when it builds
\* event_data (events.py:193-206), and the names event_data reads
\* (events.py:213-248).  chat_type_str is bound in handle_chat_member_update
\* only (events.py:58); reading it here is a NameError, which the handler's
\* `except Exception` logs (events.py:263-264).
BotHandlerNames ==
    {"my_chat_member", "chat", "bot_user", "old_status", "new_status", "update_id",
     "event_type"}
EventDataNames ==
    {"update_id", "chat", "chat_type_str", "bot_user", "event_type", "old_status",
     "new_status", "my_chat_member"}
EventDataRaises == ~ (EventDataNames \subseteq BotHandlerNames)

\* `getattr(my_chat_member, 'update_id', None) or int(get_almaty_now().timestamp())`:
\* ChatMemberUpdated has no update_id, so it is the clock's reading, a
\* positive integer.
BotUpdateId == now + 1

\* handle_bot_chat_member_update for the notification upd.
handle_bot_chat_member_update(upd) ==
    LET update_id == BotUpdateId
        event_type == _determine_bot_event_type(upd.chat_type, upd.old_status,
                                                upd.new_status)
    IN  IF Tracked(event_type) /\ ~ EventDataRaises
        THEN insert_journal_event(event_type, upd.user, UsernameOf(upd.user),
                                  NameOf(upd.user), None, upd.new_status, NoneStr,
                                  update_id, None)
        ELSE UNCHANGED <<journal, origin, returned>>

\* History of the handlers: the notification handled last and what the
\* classifier said.
Handled(op, upd, event_type) == [op |-> op, upd |-> upd, event_type |-> event_type]

OnChatMember ==
    \E upd \in Notifications :
        /\ handle_chat_member_update(upd, None)
        /\ last' = Handled("chat_member", upd,
                           _determine_event_type(upd.chat_type, upd.old_status,
                                                 upd.new_status))
        /\ UNCHANGED <<now, retention_checks, inviters, inviter_seq, users, calls, runs,
                   ADMIN_IDS, fsm, scheduler>>

OnMyChatMember ==
    \E upd \in Notifications :
        /\ handle_bot_chat_member_update(upd)
        /\ last' = Handled("my_chat_member", upd,
                           _determine_bot_event_type(upd.chat_type, upd.old_status,
                                                     upd.new_status))
        /\ UNCHANGED <<now, retention_checks, inviters, inviter_seq, users, calls, runs,
                   ADMIN_IDS, fsm, scheduler>>

NextEvents ==
    \/ OnChatMember
    \/ OnMyChatMember

SpecEvents == InitRetention /\ [][NextEvents]_vars

\* ------------------------------------------------ repeat-invitation notes
SecondInviter == [id |-> 2, name |-> "Bob", username |-> NoneStr, invite_link |-> "t2"]

\* A store whose inviter registry holds two inviters.
InitTwoInviters ==
    /\ now = 0
    /\ journal = <<>>
    /\ origin = <<>>
    /\ returned = [d \in UpdateIds |-> <<>>]
    /\ retention_checks = {}
    /\ inviters = {FirstInviter, SecondInviter}
    /\ inviter_seq = 2
    /\ users = {}
    /\ last = Idle
    /\ calls = [p \in Procs |-> NoCall]
    /\ runs = [p \in Procs |-> NoRun]
    /\ ADMIN_IDS = EnvAdminIds
    /\ fsm = [u \in TgUsers |-> NoDialog]
    /\ scheduler = NewScheduler

\* The notes a caller passes.
Notes == {NoneStr, "promo"}

\* insert_journal_event called with a note of the caller's.
AppendNoted(subjects, update_ids) ==
    \E event_type \in {"subscribe", "unsubscribe"}, u \in subjects,
       inviter_id \in InviterIds \cup {None}, note \in Notes,
       update_id \in update_ids \cup {None} :
        /\ insert_journal_event(event_type, u, UsernameOf(u), NameOf(u), inviter_id,
                                IF event_type = "subscribe" THEN "subscribed" ELSE "left",
                                note, update_id, None)
        /\ last' = [op |-> "insert_journal_event", note |-> note]
        /\ UNCHANGED <<now, retention_checks, inviters, inviter_seq, users, calls, runs,
                   ADMIN_IDS, fsm, scheduler>>

NextNotes ==
    \/ Tick(MaxTime)
    \/ AppendNoted(TgUsers, {1})

SpecNotes == InitTwoInviters /\ [][NextNotes]_vars

\* -------------------------------------------------------- the aggregations
\* Python's round(x, 1) and SQLite's ROUND(x, 2) of the ratio 100 * a / b,
\* b > 0, as integers: in tenths (ties to the even neighbour) and in
\* hundredths (ties away from zero).
RoundTenths(a, b) ==
    LET q == (1000 * a) \div b
        r == (1000 * a) % b
    IN  IF 2 * r < b THEN q
        ELSE IF 2 * r > b THEN q + 1
        ELSE q + (q % 2)

\* (mutant) the percentage cut off after two decimals
TruncHundredths(a, b) == (10000 * a) \div b

RoundHundredths(a, b) == (2 * 10000 * a + b) \div (2 * b)

\* j.tg_user_id NOT IN (SELECT j2.tg_user_id FROM journal j2
\*   WHERE j2.event_type = 'unsubscribe' AND j2.event_time > j.event_time)
NoLaterUnsubscribe(j, i) ==
    j[i].tg_user_id \notin
        {j[k].tg_user_id : k \in {x \in Ids(j) : /\ j[x].event_type = "unsubscribe"
                                                  /\ j[x].event_time > j[i].event_time}}

\* (mutant) COUNT(j1.tg_user_id) without DISTINCT
TotalActiveRows(j) ==
    Cardinality({i \in Ids(j) : j[i].event_type = "subscribe" /\ NoLaterUnsubscribe(j, i)})

\* get_daily_report_data, "Total active subscribers":
\* SELECT COUNT(DISTINCT j1.tg_user_id) FROM journal j1 WHERE ... NOT IN (...)
TotalActive(j) ==
    Cardinality({j[i].tg_user_id :
                    i \in {x \in Ids(j) : /\ j[x].event_type = "subscribe"
                                          /\ NoLaterUnsubscribe(j, x)}})

\* get_daily_report_data(report_date): the counts of the day and the total.
get_daily_report_data(j, report_date) ==
    [date |-> report_date,
     new_subscriptions |-> Cardinality({i \in Ids(j) :
         j[i].event_type = "subscribe" /\ DayOf(j[i].event_time) = report_date}),
     unsubscriptions |-> Cardinality({i \in Ids(j) :
         j[i].event_type = "unsubscribe" /\ DayOf(j[i].event_time) = report_date}),
     total_active |-> TotalActive(j)]

\* (mutant) get_statistics_data without its HAVING clause
HavingAll(row) == TRUE

\* HAVING total_invited > 0
HavingInvited(row) == row.total_invited > 0

\* get_statistics_data: one row per inviter (GROUP BY i.id) over
\* inviters LEFT JOIN journal ON i.id = j.inviter_id; inviter_id is the
\* group's key, retention_percentage is in hundredths of a percent, None for
\* SQL NULL (the division by NULLIF(total, 0)).
get_statistics_data(j, inv) ==
    LET joined(r) == {i \in Ids(j) : j[i].inviter_id = r.id}
        subscribed(r) == {i \in joined(r) : j[i].event_type = "subscribe"}
        current(r) == {i \in subscribed(r) : NoLaterUnsubscribe(j, i)}
        row(r) ==
            [inviter_id |-> r.id,
             inviter_name |-> IF r.username # NoneStr THEN r.username ELSE r.name,
             total_invited |-> Cardinality(subscribed(r)),
             currently_subscribed |-> Cardinality(current(r)),
             unsubscribed |-> Cardinality(subscribed(r) \ current(r)),
             retention_percentage |->
                 IF Cardinality(subscribed(r)) = 0 THEN None
                 ELSE RoundHundredths(Cardinality(current(r)), Cardinality(subscribed(r)))]
    IN  {row(r) : r \in {x \in inv : HavingInvited(row(x))}}

\* InviteManager._get_invite_stats(inviter_id); retention_rate is in tenths
\* of a percent.  The queries cannot fail on a well-formed store, so the
\* `except` branch is not taken.
_get_invite_stats(j, inviter_id) ==
    LET invited == {i \in Ids(j) : j[i].inviter_id = inviter_id
                                     /\ j[i].event_type = "subscribe"}
        total_invited == Cardinality(invited)
        active_now == Cardinality({j[i].tg_user_id :
                                      i \in {x \in invited : NoLaterUnsubscribe(j, x)}})
    IN  [total_invited |-> total_invited,
         active_now |-> active_now,
         retention_rate |-> IF total_invited > 0
                            THEN RoundTenths(active_now, total_invited) ELSE 0]


\* The journals the aggregations are run on: every journal of up to MaxRows
\* subscribe and unsubscribe rows of the subjects TgUsers, a subscribe
\* attributed to inviter 1, to inviter 2 or to none, at instants that do
\* not decrease with the id; and the journals of an inviter with up to
\* MaxInvited subscribers of whom some left.
RowAt(kind, t) ==
    JournalRow(t, kind[1], kind[2], UsernameOf(kind[2]), NameOf(kind[2]), kind[3],
               IF kind[1] = "subscribe" THEN "member" ELSE "left", NoneStr, None)

RowKinds ==
    ({"subscribe"} \X TgUsers \X {None, 1, 2}) \cup ({"unsubscribe"} \X TgUsers \X {None})

JournalsOf(kinds, times, n) ==
    {[i \in 1..n |-> RowAt(s[i][1], s[i][2])] :
        s \in {f \in [1..n -> kinds \X times] :
                  \A i \in 1..n : i > 1 => f[i - 1][2] <= f[i][2]}}

\* n subjects subscribed through inviter 1 and the first k of them left.
InvitedThenLeft(n, k) ==
    [i \in 1..(n + k) |-> IF i <= n THEN RowAt(<<"subscribe", i, 1>>, 0)
                          ELSE RowAt(<<"unsubscribe", i - n, None>>, 1)]

AggregateJournals ==
    UNION {JournalsOf(RowKinds, 0..(MaxRows - 1), n) : n \in 0..MaxRows}
        \cup {InvitedThenLeft(nk[1], nk[2]) :
                 nk \in {x \in (1..MaxInvited) \X (0..MaxInvited) : x[2] <= x[1]}}

InitAggregate ==
    /\ now = MaxRows
    /\ journal \in AggregateJournals
    /\ origin = [i \in 1..Len(journal) |-> None]
    /\ returned = [d \in UpdateIds |-> <<>>]
    /\ retention_checks = {}
    /\ inviters = {FirstInviter, SecondInviter}
    /\ inviter_seq = 2
    /\ users = {}
    /\ last = Idle
    /\ calls = [p \in Procs |-> NoCall]
    /\ runs = [p \in Procs |-> NoRun]
    /\ ADMIN_IDS = EnvAdminIds
    /\ fsm = [u \in TgUsers |-> NoDialog]
    /\ scheduler = NewScheduler

StatisticsData ==
    /\ last' = [op |-> "get_statistics_data",
                rows |-> get_statistics_data(journal, inviters)]
    /\ UNCHANGED <<now, journal, origin, returned, retention_checks, inviters,
                   inviter_seq, users, calls, runs,
                   ADMIN_IDS, fsm, scheduler>>

DailyReportData ==
    /\ last' = [op |-> "get_daily_report_data",
                data |-> get_daily_report_data(journal, DayOf(now))]
    /\ UNCHANGED <<now, journal, origin, returned, retention_checks, inviters,
                   inviter_seq, users, calls, runs,
                   ADMIN_IDS, fsm, scheduler>>

InviteStats ==
    \E inviter_id \in InviterIds :
        /\ last' = [op |-> "_get_invite_stats", inviter_id |-> inviter_id,
                    stats |-> _get_invite_stats(journal, inviter_id)]
        /\ UNCHANGED <<now, journal, origin, returned, retention_checks, inviters,
                       inviter_seq, users, calls, runs,
                   ADMIN_IDS, fsm, scheduler>>

NextAggregate ==
    \/ StatisticsData
    \/ DailyReportData
    \/ InviteStats

SpecAggregate == InitAggregate /\ [][NextAggregate]_vars

\* ------------------------------------------------------ the period counts
\* Dates are day numbers of a common year, day 0 being 1 January; the
\* 'YYYY-MM-DD' text of a date and SQL date() of an ISO timestamp name the
\* same day.  MonthStarts are the first days of January .. April.
MonthStarts == <<0, 31, 59, 90>>

\* date(d, '+1 month'): the month number goes up by one and the day of the
\* month is kept, an overflow running into the following month.
AddMonth(d) ==
    LET m == CHOOSE k \in 1..(Len(MonthStarts) - 1) :
                 MonthStarts[k] <= d /\ d < MonthStarts[k + 1]
    IN  MonthStarts[m + 1] + (d - MonthStarts[m])

\* note LIKE '%repeat%', for the notes the store holds.
RepeatNotes == {"repeat", "promo,repeat"}

\* (mutant) a range that includes its end
InPeriodClosed(day, first, end) == day >= first /\ day <= end

\* date(event_time) >= date(first) AND date(event_time) < end
InPeriod(day, first, end) == day >= first /\ day < end

\* The SELECT the three functions share, over the rows `rows` of the WHERE
\* clause, and the net_growth they add.
PeriodStats(j, rows) ==
    LET total_subscriptions ==
            Cardinality({i \in rows : j[i].event_type = "subscribe"})
        total_unsubscriptions ==
            Cardinality({i \in rows : j[i].event_type = "unsubscribe"})
    IN  [total_subscriptions |-> total_subscriptions,
         total_unsubscriptions |-> total_unsubscriptions,
         unique_subscribers |->
             Cardinality({j[i].tg_user_id :
                             i \in {x \in rows : j[x].event_type = "subscribe"}}),
         repeat_subscribers |->
             Cardinality({i \in rows : /\ j[i].event_type = "subscribe"
                                       /\ j[i].note \in RepeatNotes}),
         net_growth |-> total_subscriptions - total_unsubscriptions]

get_daily_stats(j, report_date) ==
    PeriodStats(j, {i \in Ids(j) : DayOf(j[i].event_time) = report_date})

get_weekly_stats(j, week_start) ==
    PeriodStats(j, {i \in Ids(j) :
                       InPeriod(DayOf(j[i].event_time), week_start, week_start + 7)})

get_monthly_stats(j, month_start) ==
    PeriodStats(j, {i \in Ids(j) :
                       InPeriod(DayOf(j[i].event_time), month_start, AddMonth(month_start))})

\* The days events fall on: 1, 7, 8 and 31 January and 1 February.
StatDays == {0, 6, 7, 30, 31}

PeriodKinds == {<<"subscribe", 1, None>>, <<"subscribe", 2, None>>,
                <<"unsubscribe", 1, None>>}

PeriodJournals ==
    UNION {JournalsOf(PeriodKinds, {d * TicksPerDay : d \in StatDays}, n) :
              n \in 0..MaxRows}

InitPeriods ==
    /\ now = 31 * TicksPerDay
    /\ journal \in PeriodJournals
    /\ origin = [i \in 1..Len(journal) |-> None]
    /\ returned = [d \in UpdateIds |-> <<>>]
    /\ retention_checks = {}
    /\ inviters = {FirstInviter}
    /\ inviter_seq = 1
    /\ users = {}
    /\ last = Idle
    /\ calls = [p \in Procs |-> NoCall]
    /\ runs = [p \in Procs |-> NoRun]
    /\ ADMIN_IDS = EnvAdminIds
    /\ fsm = [u \in TgUsers |-> NoDialog]
    /\ scheduler = NewScheduler

DailyStats ==
    \E report_date \in StatDays :
        /\ last' = [op |-> "get_daily_stats", first |-> report_date,
                    stats |-> get_daily_stats(journal, report_date)]
        /\ UNCHANGED <<now, journal, origin, returned, retention_checks, inviters,
                       inviter_seq, users, calls, runs,
                   ADMIN_IDS, fsm, scheduler>>

WeeklyStats ==
    \E week_start \in {0, 6} :
        /\ last' = [op |-> "get_weekly_stats", first |-> week_start,
                    stats |-> get_weekly_stats(journal, week_start)]
        /\ UNCHANGED <<now, journal, origin, returned, retention_checks, inviters,
                       inviter_seq, users, calls, runs,
                   ADMIN_IDS, fsm, scheduler>>

MonthlyStats ==
    \E month_start \in {0} :
        /\ last' = [op |-> "get_monthly_stats", first |-> month_start,
                    stats |-> get_monthly_stats(journal, month_start)]
        /\ UNCHANGED <<now, journal, origin, returned, retention_checks, inviters,
                       inviter_seq, users, calls, runs,
                   ADMIN_IDS, fsm, scheduler>>

NextPeriods ==
    \/ DailyStats
    \/ WeeklyStats
    \/ MonthlyStats

SpecPeriods == InitPeriods /\ [][NextPeriods]_vars

\* ----------------------------------------------------- the subjects table
\* The handles and display names a caller passes for a subject (None: the
\* argument's default).
Handles == {NoneStr, "alex", "alexa"}
DisplayNames == {NoneStr, "Alex", "Alexander"}

\* No row of users.
NoUser == [id |-> None, tg_user_id |-> None, username |-> NoneStr, name |-> NoneStr]

\* SELECT * FROM users WHERE tg_user_id = ?
UserRow(us, tg_user_id) ==
    IF \E r \in us : r.tg_user_id = tg_user_id
    THEN CHOOSE r \in us : r.tg_user_id = tg_user_id
    ELSE NoUser

\* insert_user_if_not_exists(tg_user_id, username, name): the upsert, then
\* `SELECT id FROM users WHERE tg_user_id = ?` for the id it returns.
insert_user_if_not_exists(tg_user_id, username, name) ==
    /\ users' = UsersAfterUpsert(users, tg_user_id, username, name)
    /\ last' = [op |-> "insert_user_if_not_exists", tg_user_id |-> tg_user_id,
                username |-> username, name |-> name,
                before |-> UserRow(users, tg_user_id),
                result |-> UserRow(users', tg_user_id).id]

InsertUser ==
    \E tg_user_id \in TgUsers, username \in Handles, name \in DisplayNames :
        /\ insert_user_if_not_exists(tg_user_id, username, name)
        /\ UNCHANGED <<now, journal, origin, returned, retention_checks, inviters,
                       inviter_seq, calls, runs,
                   ADMIN_IDS, fsm, scheduler>>

NextSubjects ==
    \/ InsertUser

SpecSubjects == Init /\ [][NextSubjects]_vars

\* ---------------------------------------------------- the inviter registry
\* The handles a caller passes to upsert_inviter (with or without "@", or
\* none), and the names create_invite_for is called with: a display name
\* (ui.py:206) or a handle with "@" (commands.py:937-954).
InviterHandles == {NoneStr, "ann", "@ann", "@bob"}
InviteNames == {"Ann", "@ann"}

\* The links the transport issues for the channel.
ChannelLinks == InviteLinks \cup {"t3"}

\* _create_channel_invite: create_chat_invite_link issues a new link of the
\* channel; when that call raises, export_chat_invite_link issues the
\* channel's new primary link; when both raise, so does the function.  Either
\* link is new: no link the transport issued before.
TransportOutcomes == {"created", "exported", "failed"}
IssuedLinks(inv) == ChannelLinks \ {r.invite_link : r \in inv}

\* journal.inviter_id REFERENCES inviters(id): with PRAGMA foreign_keys=ON
\* an INSERT whose inviter_id is no inviter's id fails with IntegrityError.
ForeignKeyFails(inv, inviter_id) ==
    inviter_id # None /\ ~ \E r \in inv : r.id = inviter_id

\* upsert_inviter called through the store's API.
UpsertInviterCall ==
    \E name \in InviterNames, username \in InviterHandles,
       invite_link \in InviteLinks \cup {NoneStr}, result \in 1..MaxInviters :
        /\ upsert_inviter(name, username, invite_link, result)
        /\ last' = [op |-> "upsert_inviter", name |-> name,
                    username |-> NormalizeUsername(username),
                    invite_link |-> invite_link, result |-> result, raised |-> FALSE]
        /\ UNCHANGED <<now, journal, origin, returned, retention_checks, users, calls, runs,
                   ADMIN_IDS, fsm, scheduler>>

\* create_invite_for(inviter_name) with the link the transport issued:
\* SELECT id FROM inviters WHERE name = ?, then the UPDATE of that row or
\* the INSERT of a row whose username is the name as given.
create_invite_for(inviter_name, invite_link) ==
    LET existing == {r.id : r \in {q \in inviters : q.name = inviter_name}}
    IN  IF existing # {}
        THEN /\ \E id \in existing :
                    inviters' = {IF r.id = id
                                 THEN [r EXCEPT !.username = inviter_name,
                                                !.invite_link = invite_link]
                                 ELSE r : r \in inviters}
             /\ UNCHANGED inviter_seq
        ELSE /\ inviter_seq < MaxInviters
             /\ inviters' = inviters \cup {[id |-> inviter_seq + 1, name |-> inviter_name,
                                            username |-> inviter_name,
                                            invite_link |-> invite_link]}
             /\ inviter_seq' = inviter_seq + 1

CreateInviteFor ==
    \E inviter_name \in InviteNames, outcome \in TransportOutcomes :
        /\ IF outcome = "failed"
           THEN /\ UNCHANGED <<inviters, inviter_seq>>
                /\ last' = [op |-> "create_invite_for", name |-> inviter_name,
                            username |-> inviter_name, invite_link |-> NoneStr,
                            result |-> None, raised |-> TRUE]
           ELSE \E invite_link \in IssuedLinks(inviters) :
                /\ create_invite_for(inviter_name, invite_link)
                /\ last' = [op |-> "create_invite_for", name |-> inviter_name,
                            username |-> inviter_name, invite_link |-> invite_link,
                            result |-> None, raised |-> FALSE]
        /\ UNCHANGED <<now, journal, origin, returned, retention_checks, users, calls, runs,
                   ADMIN_IDS, fsm, scheduler>>

\* InviteManager.delete_invite(invite_id), recorded.
DeleteInviteCall ==
    \E invite_id \in 1..MaxInviters :
        /\ inviters' = InvitersAfterDelete(inviters, journal, invite_id)
        /\ last' = [op |-> "delete_invite", name |-> NoneStr, username |-> NoneStr,
                    invite_link |-> NoneStr, result |-> invite_id,
                    raised |-> InviterReferenced(journal, invite_id)]
        /\ UNCHANGED <<now, journal, origin, returned, retention_checks, inviter_seq,
                       users, calls, runs,
                   ADMIN_IDS, fsm, scheduler>>

\* insert_journal_event for a subscribe of subject 1 with an inviter id the
\* caller holds, which may be that of an inviter deleted since.
AppendAttributed ==
    \E inviter_id \in 1..MaxInviters :
        /\ IF ForeignKeyFails(inviters, inviter_id)
           THEN UNCHANGED <<journal, origin, returned>>
           ELSE insert_journal_event("subscribe", 1, UsernameOf(1), NameOf(1), inviter_id,
                                     "subscribed", NoneStr, None, None)
        /\ last' = [op |-> "insert_journal_event", name |-> NoneStr, username |-> NoneStr,
                    invite_link |-> NoneStr, result |-> inviter_id,
                    raised |-> ForeignKeyFails(inviters, inviter_id)]
        /\ UNCHANGED <<now, retention_checks, inviters, inviter_seq, users, calls, runs,
                   ADMIN_IDS, fsm, scheduler>>

NextInviters ==
    \/ UpsertInviterCall
    \/ CreateInviteFor
    \/ DeleteInviteCall
    \/ AppendAttributed

SpecInviters == Init /\ [][NextInviters]_vars

\* ------------------------------------------ insert_journal_event that fails
\* What can go wrong in one call, beyond what the tables decide:
\*   "connect"    sqlite3.connect or an execute raises OperationalError;
\*   "constraint" the row violates a NOT NULL or CHECK constraint of journal;
\*   "commit"     conn.commit() raises after the INSERT was executed.
Faults == {"none", "connect", "constraint", "commit"}

\* (mutant) a get_connection that closes without rolling back and whose
\* connection keeps what was executed.
NoRollback(j, written) == written

\* get_connection's `except Exception` (db.py:47-51): what was executed on
\* the connection and not committed is rolled back, then the error is raised
\* again.
Rollback(j, written) == j

\* Whether the call raises.  INSERT OR IGNORE (a truthy telegram_update_id)
\* skips a row that violates UNIQUE, NOT NULL or CHECK: rowcount is 0, and
\* the call returns the id of the row with that telegram_update_id when there
\* is one and raises RuntimeError when there is none (db.py:230-242).  It
\* does not skip a foreign key violation; the plain INSERT skips nothing.
InsertRaises(fault, j, inv, row) ==
    LET skipped == /\ Truthy(row.telegram_update_id)
                   /\ (fault = "constraint" \/ DeliveryConflict(j, row.telegram_update_id))
    IN  \/ fault = "connect"
        \/ fault = "commit"
        \/ fault = "constraint" /\ ~ Truthy(row.telegram_update_id)
        \/ skipped /\ ExistingId(j, row.telegram_update_id) = None
        \/ ~ skipped /\ ForeignKeyFails(inv, row.inviter_id)

\* The journal after a call that raised: nothing was executed, or the INSERT
\* was executed and is rolled back.
JournalAfterRaise(fault, j, inv, row) ==
    IF fault = "commit" /\ ~ ForeignKeyFails(inv, row.inviter_id)
    THEN Rollback(j, JournalAfterInsert(j, row))
    ELSE j

\* insert_journal_event called where a fault may strike.
InsertUnderFault ==
    \E fault \in Faults, event_type \in {"subscribe", "unsubscribe"},
       inviter_id \in (1..MaxInviters) \cup {None}, update_id \in {1, None} :
        LET row == JournalRow(now, event_type, 1, UsernameOf(1), NameOf(1), inviter_id,
                              "subscribed", NoneStr, update_id)
            raised == InsertRaises(fault, journal, inviters, row)
        IN  /\ Len(journal) < MaxJournal
            /\ IF raised
               THEN /\ journal' = JournalAfterRaise(fault, journal, inviters, row)
                    /\ UNCHANGED <<origin, returned>>
               ELSE IF fault = "constraint"
               THEN UNCHANGED <<journal, origin, returned>>
               ELSE insert_journal_event(event_type, 1, UsernameOf(1), NameOf(1), inviter_id,
                                         "subscribed", NoneStr, update_id, None)
            /\ last' = [op |-> "insert_journal_event", fault |-> fault,
                        inviter_id |-> inviter_id, telegram_update_id |-> update_id,
                        duplicate |-> DeliveryConflict(journal, update_id),
                        raised |-> raised]
            /\ UNCHANGED <<now, retention_checks, inviters, inviter_seq, users, calls, runs,
                   ADMIN_IDS, fsm, scheduler>>

NextFaults ==
    \/ Tick(MaxTime)
    \/ InsertUnderFault

SpecFaults == InitRetention /\ [][NextFaults]_vars

\* -------------------------------------------- a retention batch that fails
\* get_retention_stats where check_user_retention raises for the
\* subscriptions in `failing` (its connection or its SELECT fails, and
\* get_connection raises the error again, db.py:47-51).  The loop
\* (db.py:520-530) has no try block: the first error leaves the loop and the
\* function, and no numbers are returned.  `attempted` counts the
\* check_user_retention calls made.
get_retention_stats_failing(j, rc, retention_days, check_date, failing) ==
    LET todo == InIdOrder(get_subscriptions_for_retention_check(j, rc, retention_days,
                                                                 check_date))
        bad == {k \in 1..Len(todo) : todo[k] \in failing}
        first == IF bad = {} THEN Len(todo) ELSE CHOOSE k \in bad : \A m \in bad : k <= m
    IN  [candidates |-> Len(todo),
         failed |-> Cardinality(bad),
         attempted |-> first,
         raised |-> bad # {},
         stats |-> IF bad = {}
                   THEN get_retention_stats(j, rc, retention_days, check_date)
                   ELSE [total_subscriptions |-> None, retained |-> None,
                         not_retained |-> None]]

\* evaluate(window, as_of) while some of the journal's rows cannot be read.
EvaluateFailing ==
    \E retention_days \in Windows, failing \in SUBSET Ids(journal) :
        /\ last' = [op |-> "evaluate", retention_days |-> retention_days,
                    check_date |-> DayOf(now), failing |-> failing,
                    run |-> get_retention_stats_failing(journal, retention_checks,
                                                        retention_days, DayOf(now),
                                                        failing)]
        /\ UNCHANGED <<now, journal, origin, returned, retention_checks, inviters,
                       inviter_seq, users, calls, runs,
                   ADMIN_IDS, fsm, scheduler>>

NextBatch ==
    \/ EvaluateFailing
    \/ InsertRetentionCheck

SpecBatch == InitCohort /\ [][NextBatch]_vars

\* ------------------------------------------- the queries on a quiet journal
\* (mutant) SUM(1) in place of COUNT(*): NULL over no rows.
SumOnes(S) == IF S = {} THEN None ELSE Cardinality(S)

\* SQL COUNT over the rows S: 0 over no rows.
Count(S) == Cardinality(S)

\* A rate as the quotient it is computed from; 0 is 0 / 1.
ZeroRate == [num |-> 0, den |-> 1]

\* get_retention_stats's retention_rate (db.py:533):
\* `retained_count / total_subscriptions if total_subscriptions > 0 else 0.0`
retention_rate(retained_count, total_subscriptions) ==
    IF total_subscriptions > 0
    THEN [num |-> retained_count, den |-> total_subscriptions]
    ELSE ZeroRate

\* get_retention_for_date(target_date, retention_days): the subscribes of the
\* target date, and of their subjects those with no unsubscribe later than
\* the subscribe and not later than target_date + retention_days.  With no
\* subscribe on the date the zeros are returned at once (db.py:711-712).
get_retention_for_date(j, target_date, retention_days) ==
    LET subscribed == {i \in Ids(j) : /\ j[i].event_type = "subscribe"
                                      /\ DayOf(j[i].event_time) = target_date}
        total_subscriptions == Count(subscribed)
        check_date == target_date + retention_days
        left(i) == \E k \in Ids(j) :
                      /\ j[k].tg_user_id = j[i].tg_user_id
                      /\ j[k].event_type = "unsubscribe"
                      /\ j[k].event_time > j[i].event_time
                      /\ DayOf(j[k].event_time) <= check_date
        retained == Count({j[i].tg_user_id : i \in {x \in subscribed : ~ left(x)}})
    IN  IF total_subscriptions = 0
        THEN [total_subscriptions |-> 0, retained |-> 0, retention_rate |-> ZeroRate]
        ELSE [total_subscriptions |-> total_subscriptions, retained |-> retained,
              retention_rate |-> IF total_subscriptions > 0
                                 THEN [num |-> retained * 100, den |-> total_subscriptions]
                                 ELSE ZeroRate]

RetentionForDate ==
    \E target_date \in StatDays, retention_days \in Windows :
        /\ last' = [op |-> "get_retention_for_date", first |-> target_date,
                    stats |-> get_retention_for_date(journal, target_date, retention_days)]
        /\ UNCHANGED <<now, journal, origin, returned, retention_checks, inviters,
                       inviter_seq, users, calls, runs,
                   ADMIN_IDS, fsm, scheduler>>

\* get_retention_stats(retention_days, check_date) with its retention_rate.
RetentionStats ==
    \E retention_days \in Windows, check_date \in StatDays :
        LET stats == get_retention_stats(journal, retention_checks, retention_days,
                                         check_date)
        IN  /\ last' = [op |-> "get_retention_stats", first |-> check_date - retention_days,
                        stats |-> stats,
                        rate |-> retention_rate(stats.retained, stats.total_subscriptions)]
            /\ UNCHANGED <<now, journal, origin, returned, retention_checks, inviters,
                           inviter_seq, users, calls, runs,
                   ADMIN_IDS, fsm, scheduler>>

\* get_daily_report_data(report_date) for a day of the calendar.
DailyReportFor ==
    \E report_date \in StatDays :
        /\ last' = [op |-> "get_daily_report_data", first |-> report_date,
                    data |-> get_daily_report_data(journal, report_date)]
        /\ UNCHANGED <<now, journal, origin, returned, retention_checks, inviters,
                       inviter_seq, users, calls, runs,
                   ADMIN_IDS, fsm, scheduler>>

NextQuiet ==
    \/ DailyStats
    \/ WeeklyStats
    \/ MonthlyStats
    \/ RetentionStats
    \/ RetentionForDate
    \/ DailyReportFor
    \/ StatisticsData

SpecQuiet == InitPeriods /\ [][NextQuiet]_vars

\* ------------------------------------ concurrent inserts under two inviters
\* The stepwise insert_journal_event of two callers on a store with two
\* inviter rows.
NextRivals ==
    \/ BeginInsert({})
    \/ RepeatSelect
    \/ InsertStatement
    \/ CommitInsert

SpecRivals == InitTwoInviters /\ [][NextRivals]_vars

\* ------------------------------------------------ active invitees by name
\* count_active_users_by_inviter(inviter_name): COUNT(DISTINCT tg_user_id) over
\* the subscribe rows joined to the inviters named inviter_name, whose subject
\* has no later unsubscribe.
count_active_users_by_inviter(j, inv, inviter_name) ==
    LET named == {r.id : r \in {q \in inv : q.name = inviter_name}}
        invited == {i \in Ids(j) : j[i].inviter_id \in named
                                     /\ j[i].event_type = "subscribe"}
    IN  Cardinality({j[i].tg_user_id : i \in {x \in invited : NoLaterUnsubscribe(j, x)}})

\* ------------------------------------------------------ the report scheduler
\* An optional argument is <<>> (not given) or <<value>>.  A time of day is a
\* tick of the day; the cron trigger and the report key read the same clock.
TimeOfDay(t) == t % TicksPerDay

\* _cleanup_sent_today: only the key of the current day is kept.
_cleanup_sent_today(s, t) == [s EXCEPT !.sent_today = @ \cap {DayOf(t)}]

\* _setup_schedule: remove_all_jobs, _cleanup_sent_today, and, when the
\* config is enabled, add_job('daily_reports') (report_types is ['daily']).
_setup_schedule(s, t) ==
    LET cleaned == _cleanup_sent_today([s EXCEPT !.jobs = {}], t)
    IN  IF ~ cleaned.enabled THEN cleaned
        ELSE [cleaned EXCEPT !.jobs = {"daily_reports"}]

\* configure(report_time, target_chats, enabled): the given fields are set,
\* a disabled config with target chats is enabled again, and a running
\* scheduler gets its schedule set up anew.
configure(s, report_time, target_chats, enabled, t) ==
    LET c1 == IF report_time # <<>> THEN [s EXCEPT !.report_time = report_time[1]] ELSE s
        c2 == IF target_chats # <<>> THEN [c1 EXCEPT !.target_chats = target_chats[1]] ELSE c1
        c3 == IF enabled # <<>> THEN [c2 EXCEPT !.enabled = enabled[1]] ELSE c2
        c4 == IF Len(c3.target_chats) > 0 /\ ~ c3.enabled
              THEN [c3 EXCEPT !.enabled = TRUE] ELSE c3
    IN  IF c4.running THEN _setup_schedule(c4, t) ELSE c4

\* start(): nothing when running, disabled or without target chats (the bot
\* is there); otherwise running, the schedule set up, the scheduler started.
start(s, t) ==
    IF s.running \/ ~ s.enabled \/ s.target_chats = <<>> THEN s
    ELSE _setup_schedule([s EXCEPT !.running = TRUE], t)

\* stop(): nothing when not running; otherwise not running and
\* scheduler.shutdown(wait=True).  A _send_daily_reports task that is at an
\* await either is cancelled by the shutdown of the asyncio executor, and
\* then never reaches `self._sent_today.add`, or runs on: `cancelled` names
\* which.
stop(s, cancelled) ==
    IF ~ s.running THEN s
    ELSE [s EXCEPT !.running = FALSE,
                   !.task = IF cancelled THEN NoTask ELSE @]

\* The lists of chats /schedule config is given (no chat twice).
ChatLists == {<<>>, <<1>>, <<1, 2>>}

\* /schedule config HH:MM chats
ScheduleConfig ==
    \E report_time \in 0..(TicksPerDay - 1), target_chats \in ChatLists :
        /\ scheduler' = configure(scheduler, <<report_time>>, <<target_chats>>, <<>>, now)
        /\ last' = [op |-> "schedule_config"]
        /\ UNCHANGED <<now, journal, origin, returned, retention_checks, inviters,
                       inviter_seq, users, calls, runs, ADMIN_IDS, fsm>>

\* /schedule enable
ScheduleEnable ==
    /\ scheduler' = start(configure(scheduler, <<>>, <<>>, <<TRUE>>, now), now)
    /\ last' = [op |-> "schedule_enable"]
    /\ UNCHANGED <<now, journal, origin, returned, retention_checks, inviters,
                   inviter_seq, users, calls, runs, ADMIN_IDS, fsm>>

\* /schedule disable
ScheduleDisable ==
    \E cancelled \in BOOLEAN :
        /\ scheduler' = stop(configure(scheduler, <<>>, <<>>, <<FALSE>>, now), cancelled)
        /\ last' = [op |-> "schedule_disable"]
        /\ UNCHANGED <<now, journal, origin, returned, retention_checks, inviters,
                       inviter_seq, users, calls, runs, ADMIN_IDS, fsm>>

\* The cron trigger of job 'daily_reports' fires at report_time, once per run
\* time and not while an instance of the job is running (max_instances = 1):
\* _send_daily_reports reads the report key and returns when it was sent,
\* otherwise starts sending to config.target_chats.
CronFires ==
    /\ scheduler.running
    /\ "daily_reports" \in scheduler.jobs
    /\ TimeOfDay(now) = scheduler.report_time
    /\ scheduler.fired # now
    /\ scheduler.task.pc = "idle"
    /\ scheduler' =
          [scheduler EXCEPT
              !.fired = now,
              !.task = IF DayOf(now) \in scheduler.sent_today THEN NoTask
                       ELSE [pc |-> "sending", report_key |-> DayOf(now),
                             todo |-> scheduler.target_chats]]
    /\ UNCHANGED <<now, journal, origin, returned, retention_checks, inviters,
                   inviter_seq, users, last, calls, runs, ADMIN_IDS, fsm>>

\* One turn of the loop of _send_unified_daily_reports: send_message to the
\* next chat, which delivers or raises (the exception is logged).
SendToChat ==
    \E delivers \in BOOLEAN :
        LET task == scheduler.task
            key == <<task.report_key, Head(task.todo)>>
        IN  /\ task.pc = "sending" /\ task.todo # <<>>
            /\ scheduler.delivered[key] < MaxDeliveries
            /\ scheduler' =
                  [scheduler EXCEPT
                      !.task.todo = Tail(@),
                      !.delivered[key] = IF delivers THEN @ + 1 ELSE @]
            /\ UNCHANGED <<now, journal, origin, returned, retention_checks, inviters,
                           inviter_seq, users, last, calls, runs, ADMIN_IDS, fsm>>

\* The loop is over: self._sent_today.add(report_key).
FinishDailyReports ==
    /\ scheduler.task.pc = "sending" /\ scheduler.task.todo = <<>>
    /\ scheduler' = [scheduler EXCEPT !.sent_today = @ \cup {scheduler.task.report_key},
                                      !.task = NoTask]
    /\ UNCHANGED <<now, journal, origin, returned, retention_checks, inviters,
                   inviter_seq, users, last, calls, runs, ADMIN_IDS, fsm>>

NextScheduler ==
    \/ Tick(MaxClock)
    \/ ScheduleConfig
    \/ ScheduleEnable
    \/ ScheduleDisable
    \/ CronFires
    \/ SendToChat
    \/ FinishDailyReports

SpecScheduler == Init /\ [][NextScheduler]_vars

\* ------------------------------------------------- commands and dialog flows
\* A handler is an action: its guard is the filter it is registered with (a
\* message handler its dialog state, a callback handler its callback data),
\* its sender is any subject.  state.update_data merges into the sender's
\* data, state.set_state leaves the data, state.clear() drops both.

\* A check that lets every sender through.
is_admin_anyone(user_id) == user_id = user_id

\* is_admin(user_id)
is_admin(user_id) == user_id \in ADMIN_IDS

\* int(message.text.strip()): <<n>>, or <<>> for ValueError.
ParseInt(text) ==
    CASE text = "1" -> <<1>>
      [] text = "2" -> <<2>>
      [] text = "0" -> <<0>>
      [] OTHER -> <<>>

\* `if username.startswith('@'): username = username[1:]`
StripAt(text) == IF text = "@alex" THEN "alex" ELSE text

\* What the last handler did: its sender, the sender's dialog state before
\* it, whether it called add_user_manual and with which data, what the call
\* (add_user_manual, delete_user, delete_invite, add_admin) returned, and the
\* id add_admin was called with.
Handled_by(op, sender, called, data, success, admin_id) ==
    [op |-> op, sender |-> sender, state |-> fsm[sender].state, called |-> called,
     data |-> data, success |-> success, admin_id |-> admin_id]

\* The handler replied and did nothing else (a sender who is no
\* administrator, or an input that is rejected).
Refused(op, sender) ==
    /\ last' = Handled_by(op, sender, FALSE, NoData, FALSE, None)
    /\ UNCHANGED <<now, journal, origin, returned, retention_checks, inviters,
                   inviter_seq, users, calls, runs, ADMIN_IDS, fsm, scheduler>>

\* The handler changed the sender's FSM context only.
Moved(op, sender, context) ==
    /\ fsm' = [fsm EXCEPT ![sender] = context]
    /\ last' = Handled_by(op, sender, FALSE, NoData, FALSE, None)
    /\ UNCHANGED <<now, journal, origin, returned, retention_checks, inviters,
                   inviter_seq, users, calls, runs, ADMIN_IDS, scheduler>>

\* callback "menu:manual_add"
start_manual_add_flow ==
    \E sender \in TgUsers :
        IF ~ is_admin(sender) THEN Refused("start_manual_add_flow", sender)
        ELSE Moved("start_manual_add_flow", sender,
                   [fsm[sender] EXCEPT !.state = "waiting_user_id"])

\* message in state waiting_user_id
handle_user_id_input ==
    \E sender \in TgUsers, text \in {"1", "0", "abc"} :
        /\ fsm[sender].state = "waiting_user_id"
        /\ IF ~ is_admin(sender) \/ ParseInt(text) = <<>> \/ ParseInt(text)[1] <= 0
           THEN Refused("handle_user_id_input", sender)
           ELSE Moved("handle_user_id_input", sender,
                      [state |-> "waiting_username",
                       data |-> [fsm[sender].data EXCEPT !.tg_user_id = ParseInt(text)[1]]])

\* message in state waiting_username
handle_username_input ==
    \E sender \in TgUsers, text \in {"@alex"} :
        /\ fsm[sender].state = "waiting_username"
        /\ IF ~ is_admin(sender) THEN Refused("handle_username_input", sender)
           ELSE Moved("handle_username_input", sender,
                      [state |-> "waiting_user_name",
                       data |-> [fsm[sender].data EXCEPT !.username = StripAt(text)]])

\* callback "skip:username": no test of the sender, no test of the state.
skip_username ==
    \E sender \in TgUsers :
        Moved("skip_username", sender,
              [state |-> "waiting_user_name",
               data |-> [fsm[sender].data EXCEPT !.username = NoneStr]])

\* message in state waiting_user_name
handle_user_name_input ==
    \E sender \in TgUsers, text \in {"Alex"} :
        /\ fsm[sender].state = "waiting_user_name"
        /\ IF ~ is_admin(sender) THEN Refused("handle_user_name_input", sender)
           ELSE Moved("handle_user_name_input", sender,
                      [state |-> "waiting_inviter",
                       data |-> [fsm[sender].data EXCEPT !.name = text]])

\* callback "skip:name": no test of the sender, no test of the state.
skip_name ==
    \E sender \in TgUsers :
        Moved("skip_name", sender,
              [state |-> "waiting_inviter",
               data |-> [fsm[sender].data EXCEPT !.name = NoneStr]])

\* UserManager.add_user_manual(user_data) as the dialog calls it: the inviter
\* is looked up by name, `user_data['tg_user_id']` raises KeyError when the
\* key is absent, and the function then returns False and has written
\* nothing; otherwise the users row is upserted and a manual_add event
\* appended.
add_user_manual(user_data, inviter_name, success) ==
    LET named == {r \in inviters : r.name = inviter_name}
        inviter_id == IF inviter_name # NoneStr /\ named # {}
                      THEN (CHOOSE r \in named : \A q \in named : r.id <= q.id).id
                      ELSE None
    IN  IF user_data.tg_user_id = None
        THEN /\ success = FALSE
             /\ UNCHANGED <<journal, origin, returned, users>>
        ELSE /\ success = TRUE
             /\ users' = UsersAfterUpsert(users, user_data.tg_user_id,
                                          user_data.username, user_data.name)
             /\ insert_journal_event("manual_add", user_data.tg_user_id,
                                     user_data.username, user_data.name, inviter_id,
                                     "subscribed", "manually_added", None, None)

\* The end of the manual-add dialog: add_user_manual(data), the reply, then
\* state.clear(); when the reply raises, the handler's `except` is entered
\* and the state stays.
FinishManualAdd(op, sender, inviter_name) ==
    \E success, replied \in BOOLEAN :
        /\ add_user_manual(fsm[sender].data, inviter_name, success)
        /\ fsm' = [fsm EXCEPT ![sender] = IF replied THEN NoDialog ELSE @]
        /\ last' = Handled_by(op, sender, TRUE, fsm[sender].data, success, None)
        /\ UNCHANGED <<now, retention_checks, inviters, inviter_seq, calls, runs,
                       ADMIN_IDS, scheduler>>

\* message in state waiting_inviter
handle_inviter_input ==
    \E sender \in TgUsers, text \in {"Ann", "Zed"} :
        /\ fsm[sender].state = "waiting_inviter"
        /\ IF ~ is_admin(sender) THEN Refused("handle_inviter_input", sender)
           ELSE FinishManualAdd("handle_inviter_input", sender, text)

\* callback "skip:inviter": no test of the sender, no test of the state.
skip_inviter ==
    \E sender \in TgUsers : FinishManualAdd("skip_inviter", sender, NoneStr)

\* callback "menu:back": state.clear()
handle_back_to_main ==
    \E sender \in TgUsers : Moved("handle_back_to_main", sender, NoDialog)

\* callback "confirm:delete:<query>": delete_user(query), the reply,
\* state.clear().
handle_delete_confirmation ==
    \E sender \in TgUsers, query \in {[by |-> "id", id |-> 1, name |-> NoneStr]} :
        IF ~ is_admin(sender) THEN Refused("handle_delete_confirmation", sender)
        ELSE LET found == find_user(journal, query)
             IN  /\ IF found = None
                    THEN UNCHANGED <<journal, origin, returned>>
                    ELSE insert_journal_event("manual_delete", journal[found].tg_user_id,
                                              journal[found].username, journal[found].name,
                                              None, "deleted", "manually_deleted", None, None)
                 /\ fsm' = [fsm EXCEPT ![sender] = NoDialog]
                 /\ last' = Handled_by("handle_delete_confirmation", sender, FALSE, NoData,
                                       found # None, None)
                 /\ UNCHANGED <<now, retention_checks, inviters, inviter_seq, users,
                                calls, runs, ADMIN_IDS, scheduler>>

\* /delete_link ID, under @admin_only
handle_delete_link ==
    \E sender \in TgUsers, link_id \in 1..MaxInviters :
        IF ~ is_admin(sender) THEN Refused("handle_delete_link", sender)
        ELSE /\ \E r \in inviters : r.id = link_id
             /\ inviters' = InvitersAfterDelete(inviters, journal, link_id)
             /\ last' = Handled_by("handle_delete_link", sender, FALSE, NoData,
                                   ~ InviterReferenced(journal, link_id), None)
             /\ UNCHANGED <<now, journal, origin, returned, retention_checks,
                            inviter_seq, users, calls, runs, ADMIN_IDS, fsm, scheduler>>

\* callback "settings:add_admin"
handle_add_admin ==
    \E sender \in TgUsers :
        IF ~ is_admin(sender) THEN Refused("handle_add_admin", sender)
        ELSE Moved("handle_add_admin", sender,
                   [fsm[sender] EXCEPT !.state = "waiting_admin_id"])

\* SettingsManager.add_admin(user_id): the ids of os.environ['ADMIN_IDS'] are
\* read, _update_env_variable logs the new value, True is returned; neither
\* the environment, nor a file, nor commands.ADMIN_IDS is written.
add_admin(admin_ids, user_id) == [returned |-> TRUE, ADMIN_IDS |-> admin_ids]

\* message in state waiting_admin_id
handle_admin_id_input ==
    \E sender \in TgUsers, text \in {"2", "0", "abc"} :
        /\ fsm[sender].state = "waiting_admin_id"
        /\ IF ~ is_admin(sender) \/ ParseInt(text) = <<>> \/ ParseInt(text)[1] <= 0
           THEN Refused("handle_admin_id_input", sender)
           ELSE LET added == add_admin(ADMIN_IDS, ParseInt(text)[1])
                IN  /\ ADMIN_IDS' = added.ADMIN_IDS
                    /\ fsm' = [fsm EXCEPT ![sender] = NoDialog]
                    /\ last' = Handled_by("handle_admin_id_input", sender, FALSE, NoData,
                                          added.returned, ParseInt(text)[1])
                    /\ UNCHANGED <<now, journal, origin, returned, retention_checks,
                                   inviters, inviter_seq, users, calls, runs, scheduler>>

NextFlows ==
    \/ start_manual_add_flow
    \/ handle_user_id_input
    \/ handle_username_input
    \/ skip_username
    \/ handle_user_name_input
    \/ skip_name
    \/ handle_inviter_input
    \/ skip_inviter
    \/ handle_back_to_main
    \/ handle_delete_confirmation
    \/ handle_delete_link
    \/ handle_add_admin
    \/ handle_admin_id_input

SpecFlows == InitRetention /\ [][NextFlows]_vars

\* ------------------------------------------------------------------ claims
RowsCarrying(d) == {i \in Ids(journal) : journal[i].telegram_update_id = d}

C3_OneRowPerDelivery ==
    \A d \in DOMAIN Updates :
        Cardinality({i \in Ids(journal) : origin[i] = d}) <= 1

\* C4: every step keeps every journal row: its id and all its fields.
C4_JournalImmutable ==
    [][/\ Len(journal') >= Len(journal)
       /\ \A i \in Ids(journal) : journal'[i] = journal[i]]_vars

\* C4 witness: a re-delivery with another payload has been answered from a
\* journal whose row refers to an inviter, after the clock moved on.
C4_Witness ==
    /\ Len(returned[1]) = 2
    /\ returned[1][1].event_type # returned[1][2].event_type
    /\ \E i \in RowsCarrying(1) : journal[i].inviter_id # None /\ journal[i].event_time < now
IsSub(i) == journal[i].event_type = "subscribe"
\* An unsubscribe event of row i's subject later than row i.
LaterUnsub(i) == {k \in Ids(journal) :
    /\ journal[k].event_type = "unsubscribe"
    /\ journal[k].tg_user_id = journal[i].tg_user_id
    /\ journal[k].event_time > journal[i].event_time}

\* C5: after evaluate(window, as_of), each eligible subscription (a subscribe
\* event of day as_of - window) has exactly one retention_checks row
\* (journal_id, as_of).
C5_EvaluateRecordsChecks ==
    last.op = "evaluate" =>
        \A i \in Ids(journal) :
            IsSub(i) /\ DayOf(journal[i].event_time) = last.check_date - last.retention_days
            => Cardinality({c \in retention_checks :
                   c.journal_id = i /\ c.check_date = last.check_date}) = 1

\* C6: an evaluation of a past as_of date and the next evaluation of the same
\* (window, as_of) report the same retained / not_retained numbers, whatever
\* was appended to the journal in between (no retention check was stored).
C6_StableNumbers ==
    [][(/\ last.op = "evaluate" /\ last'.op = "evaluate"
        /\ last.past
        /\ last'.retention_days = last.retention_days
        /\ last'.check_date = last.check_date
        /\ retention_checks = {})
       => /\ last'.stats.retained = last.stats.retained
          /\ last'.stats.not_retained = last.stats.not_retained]_vars

\* C7: the candidates for (window, as_of) are the subscribe events of day
\* as_of - window without a stored check for the pair (event id, as_of).
C7_CandidatesPerPair ==
    \A w \in Windows, a \in Calendar :
        get_subscriptions_for_retention_check(journal, retention_checks, w, a)
        = {i \in Ids(journal) :
              /\ IsSub(i)
              /\ DayOf(journal[i].event_time) = a - w
              /\ ~ \E c \in retention_checks : c.journal_id = i /\ c.check_date = a}

\* C8 as stated: a candidate of evaluate(7, D+7) whose subject has no
\* unsubscribe event after it and before day D+7 gets the verdict retained,
\* and one whose subject unsubscribed on day D+3 gets not_retained.
C8_RetainedWithinWindow ==
    \A a \in Calendar :
        \A i \in get_subscriptions_for_retention_check(journal, retention_checks, 7, a) :
            /\ (\A k \in LaterUnsub(i) : DayOf(journal[k].event_time) >= a)
               => Verdict(journal, i) = "retained"
            /\ (\E k \in LaterUnsub(i) : DayOf(journal[k].event_time) = a - 7 + 3)
               => Verdict(journal, i) = "not_retained"

\* C8 as amended: evaluate(7, D+7) counts as retained exactly its candidates
\* whose subject has no later unsubscribe event in the journal at all (one on
\* or after day D+7 counts too), as not_retained all the others, and among
\* them every candidate whose subject unsubscribed on day D+3.
C8_RetainedNoLaterUnsub ==
    \A a \in Calendar :
        LET cand == get_subscriptions_for_retention_check(journal, retention_checks, 7, a)
            stats == get_retention_stats(journal, retention_checks, 7, a)
        IN  /\ stats.retained = Cardinality({i \in cand : LaterUnsub(i) = {}})
            /\ stats.not_retained = Cardinality({i \in cand : LaterUnsub(i) # {}})
            /\ stats.not_retained >=
                 Cardinality({i \in cand : \E k \in LaterUnsub(i) :
                                 DayOf(journal[k].event_time) = a - 7 + 3})

\* C8 witness: evaluate(7, 7) has counted as not_retained a subscription of
\* day 0 whose subject unsubscribed on day 3.
C8_Witness ==
    /\ last.op = "evaluate" /\ last.retention_days = 7 /\ last.check_date = 7
    /\ last.stats.not_retained = 1
    /\ \E i \in Ids(journal) :
          /\ IsSub(i) /\ DayOf(journal[i].event_time) = 0
          /\ \E k \in LaterUnsub(i) : DayOf(journal[k].event_time) = 3

\* C9: for every subscribe event, check_user_retention answers not_retained
\* exactly when the journal holds an unsubscribe event of the same subject
\* with a strictly later timestamp, whatever inviter either event carries.
C9_NotRetainedIffLaterUnsub ==
    \A i \in Ids(journal) :
        IsSub(i) =>
            (check_user_retention(journal, journal[i].tg_user_id, journal[i].event_time)
                = "not_retained"
             <=> \E k \in Ids(journal) :
                    /\ journal[k].event_type = "unsubscribe"
                    /\ journal[k].tg_user_id = journal[i].tg_user_id
                    /\ journal[k].event_time > journal[i].event_time)

\* C9 witness: a subscription attributed to an inviter, and an unsubscribe
\* event of the same subject at the very same instant that carries none.
C9_Witness ==
    \E i, k \in Ids(journal) :
        /\ IsSub(i) /\ journal[i].inviter_id = 1
        /\ journal[k].event_type = "unsubscribe" /\ journal[k].inviter_id = None
        /\ journal[k].tg_user_id = journal[i].tg_user_id
        /\ journal[k].event_time = journal[i].event_time
        /\ Verdict(journal, i) = "retained"

UniqueChecks(rc) ==
    \A c1, c2 \in rc :
        c1.journal_id = c2.journal_id /\ c1.check_date = c2.check_date => c1 = c2

\* C10: every step leaves (journal_id, check_date) unique in
\* retention_checks and keeps every stored row as it is, and no
\* insert_retention_check call raises.
C10_ChecksUniqueAndKept ==
    [][/\ UniqueChecks(retention_checks')
       /\ retention_checks \subseteq retention_checks'
       /\ (last'.op = "insert_retention_check" => ~last'.raised)]_vars

\* C10 witness: the last insert_retention_check call carried a result that
\* differs from the one stored for its pair.
C10_Witness ==
    /\ last.op = "insert_retention_check"
    /\ last.differs

UserTable ==
    { <<{"channel"}, {"left"}, {"member"}, "subscribe">>,
      <<{"channel"}, {"member"}, {"left"}, "unsubscribe">>,
      <<{"channel"}, {"member"}, {"kicked"}, "channel_banned">>,
      <<{"channel"}, {"kicked"}, {"member"}, "channel_unbanned">>,
      <<{"group", "supergroup"}, {"left"}, {"member", "restricted"}, "group_join">>,
      <<{"group", "supergroup"}, {"member", "restricted"}, {"left"}, "group_leave">>,
      <<{"group", "supergroup"}, {"member", "restricted"}, {"kicked"}, "group_banned">>,
      <<{"group", "supergroup"}, {"kicked"}, {"member", "restricted"}, "group_unbanned">>,
      <<{"group", "supergroup"}, {"member"}, {"administrator"}, "group_promoted">>,
      <<{"group", "supergroup"}, {"administrator"}, {"member"}, "group_demoted">>,
      <<{"private"}, {"left"}, {"member"}, "private_unblocked">>,
      <<{"private"}, {"member"}, {"kicked"}, "private_blocked">> }

\* The table of section 4.1 for the bot as subject (any chat kind).
BotTable ==
    { <<ChatKinds, {"left"}, {"member", "administrator"}, "bot_added">>,
      <<ChatKinds, {"member", "administrator"}, {"left"}, "bot_removed">>,
      <<ChatKinds, {"member", "administrator"}, {"kicked"}, "bot_banned">>,
      <<ChatKinds, {"kicked"}, {"member", "administrator"}, "bot_unbanned">>,
      <<ChatKinds, {"member"}, {"administrator"}, "bot_promoted">>,
      <<ChatKinds, {"administrator"}, {"member"}, "bot_demoted">> }

\* The event types a table lists for a transition.
Listed(table, chat_type, old_status, new_status) ==
    {row[4] : row \in {r \in table : chat_type \in r[1] /\ old_status \in r[2]
                                       /\ new_status \in r[3]}}

TableStatuses == {"left", "member", "restricted", "administrator", "kicked"}

C14_NoEventNoWrite ==
    [][(/\ last' # last
        /\ last'.op \in {"chat_member", "my_chat_member"}
        /\ last'.event_type = NoneStr)
       => UNCHANGED <<journal, retention_checks, inviters, inviter_seq, users>>]_vars

\* C14 witness: a channel notification restricted -> member, which is no
\* event, was handled on a journal that holds a row.
C14_Witness ==
    /\ last.op = "chat_member"
    /\ last.upd.chat_type = "channel"
    /\ last.upd.old_status = "restricted" /\ last.upd.new_status = "member"
    /\ last.event_type = NoneStr
    /\ Len(journal) = 1

\* C15: a step of handle_bot_chat_member_update whose notification
\* classifies to a bot_* event type appends one journal row of that type.
C15_BotEventJournalled ==
    [][(/\ last' # last
        /\ last'.op = "my_chat_member"
        /\ last'.event_type # NoneStr)
       => /\ Len(journal') = Len(journal) + 1
          /\ journal'[Len(journal')].event_type = last'.event_type]_vars

\* C16: the row an insert_journal_event call appends carries the caller's
\* note with the marker 'repeat' joined to it (the marker alone without a
\* note) exactly when it is a subscribe with an inviter and the journal
\* already held a subscribe of the same subject with another inviter, of
\* whatever age; in every other case it carries the caller's note unchanged.
C16_RepeatMarker ==
    [][(last'.op = "insert_journal_event" /\ Len(journal') = Len(journal) + 1)
       => LET row == journal'[Len(journal')]
              repeat ==
                  /\ row.event_type = "subscribe"
                  /\ row.inviter_id # None
                  /\ \E k \in Ids(journal) :
                        /\ journal[k].event_type = "subscribe"
                        /\ journal[k].tg_user_id = row.tg_user_id
                        /\ journal[k].inviter_id # None
                        /\ journal[k].inviter_id # row.inviter_id
          IN  row.note = IF repeat
                         THEN IF last'.note = NoneStr THEN "repeat"
                              ELSE last'.note \o ",repeat"
                         ELSE last'.note]_vars

\* C16 witness: subject 1 subscribed through inviter 1, and at a later
\* instant through inviter 2 with the caller's note "promo".
C16_Witness ==
    /\ Len(journal) = 2
    /\ journal[1].event_type = "subscribe" /\ journal[1].inviter_id = 1
    /\ journal[2].event_type = "subscribe" /\ journal[2].inviter_id = 2
    /\ journal[1].tg_user_id = journal[2].tg_user_id
    /\ journal[1].event_time < journal[2].event_time
    /\ last.op = "insert_journal_event" /\ last.note = "promo"
    /\ journal[2].note = "promo,repeat"

\* The subscribe events attributed to an inviter, and those of them with no
\* later unsubscribe event of their subject.
InvitedBy(id) == {i \in Ids(journal) : IsSub(i) /\ journal[i].inviter_id = id}
StillSubscribed(id) == {i \in InvitedBy(id) : LaterUnsub(i) = {}}

\* C17: the total_active of get_daily_report_data is the number of distinct
\* subjects with a subscribe event that no unsubscribe event of the subject
\* follows at a later timestamp.
C17_TotalActive ==
    last.op = "get_daily_report_data" =>
        last.data.total_active =
            Cardinality({u \in {journal[i].tg_user_id : i \in Ids(journal)} :
                            \E i \in Ids(journal) :
                                /\ IsSub(i) /\ journal[i].tg_user_id = u
                                /\ LaterUnsub(i) = {}})

\* C17 witness: subject 1 subscribed, unsubscribed and subscribed again, each
\* at a later instant, and subject 2 subscribed and then unsubscribed: the
\* total reported is 1.
C17_Witness ==
    /\ last.op = "get_daily_report_data" /\ last.data.total_active = 1
    /\ \E a, b, c \in Ids(journal) :
          /\ journal[a].tg_user_id = 1 /\ journal[b].tg_user_id = 1
          /\ journal[c].tg_user_id = 1
          /\ IsSub(a) /\ journal[b].event_type = "unsubscribe" /\ IsSub(c)
          /\ journal[a].event_time < journal[b].event_time
          /\ journal[b].event_time < journal[c].event_time

\* C18 as stated: get_statistics_data has, for every inviter with an
\* attributed subscribe event, one row with total_invited, currently_subscribed
\* and unsubscribed as defined and retention_percentage equal to
\* 100 * currently_subscribed / total_invited (hundredths of a percent here).
C18_InviterTotals ==
    last.op = "get_statistics_data" =>
        \A r \in inviters :
            InvitedBy(r.id) # {} =>
                /\ Cardinality({row \in last.rows : row.inviter_id = r.id}) = 1
                /\ \A row \in last.rows :
                      row.inviter_id = r.id =>
                          /\ row.total_invited = Cardinality(InvitedBy(r.id))
                          /\ row.currently_subscribed = Cardinality(StillSubscribed(r.id))
                          /\ row.unsubscribed = row.total_invited - row.currently_subscribed
                          /\ row.retention_percentage * row.total_invited
                                = 10000 * row.currently_subscribed

\* C18 as amended: the same, with retention_percentage the value of
\* 100 * currently_subscribed / total_invited rounded to two decimals.
C18_InviterTotalsRounded ==
    last.op = "get_statistics_data" =>
        \A r \in inviters :
            InvitedBy(r.id) # {} =>
                /\ Cardinality({row \in last.rows : row.inviter_id = r.id}) = 1
                /\ \A row \in last.rows :
                      row.inviter_id = r.id =>
                          LET off == row.retention_percentage * row.total_invited
                                        - 10000 * row.currently_subscribed
                          IN  /\ row.total_invited = Cardinality(InvitedBy(r.id))
                              /\ row.currently_subscribed = Cardinality(StillSubscribed(r.id))
                              /\ row.unsubscribed = row.total_invited - row.currently_subscribed
                              /\ 2 * off <= row.total_invited
                              /\ 2 * off >= 0 - row.total_invited

\* C18 witness: the inviter with five subscribe events, two of them followed
\* by an unsubscribe event, is reported with 5, 3, 2 and 60.00.
C18_Witness ==
    /\ last.op = "get_statistics_data"
    /\ Len(journal) = 7
    /\ \E row \in last.rows :
          /\ row.inviter_id = 1
          /\ row.total_invited = 5 /\ row.currently_subscribed = 3
          /\ row.unsubscribed = 2 /\ row.retention_percentage = 6000

EventsIn(event_type, first, end) ==
    {i \in Ids(journal) : /\ journal[i].event_type = event_type
                          /\ DayOf(journal[i].event_time) \in first..(end - 1)}

\* C20: the totals of get_daily_stats, get_weekly_stats and
\* get_monthly_stats count the subscribe and the unsubscribe events of the
\* requested day, of the seven days from week_start, of the month from
\* month_start, and net_growth is their difference.
C20_NetGrowth ==
    last.op \in {"get_daily_stats", "get_weekly_stats", "get_monthly_stats"} =>
        LET end == CASE last.op = "get_daily_stats" -> last.first + 1
                     [] last.op = "get_weekly_stats" -> last.first + 7
                     [] last.op = "get_monthly_stats" -> last.first + 31
        IN  /\ last.stats.total_subscriptions
                  = Cardinality(EventsIn("subscribe", last.first, end))
            /\ last.stats.total_unsubscriptions
                  = Cardinality(EventsIn("unsubscribe", last.first, end))
            /\ last.stats.net_growth
                  = last.stats.total_subscriptions - last.stats.total_unsubscriptions

\* C20 witness: the week from 1 January was counted on a journal with a
\* subscribe on 7 January, an unsubscribe on 8 January and a subscribe inside
\* neither: one subscription, no unsubscription, net growth 1.
C20_Witness ==
    /\ last.op = "get_weekly_stats" /\ last.first = 0
    /\ \E i, k \in Ids(journal) :
          /\ IsSub(i) /\ DayOf(journal[i].event_time) = 6
          /\ journal[k].event_type = "unsubscribe" /\ DayOf(journal[k].event_time) = 7
    /\ last.stats.total_subscriptions = 1
    /\ last.stats.total_unsubscriptions = 0
    /\ last.stats.net_growth = 1
    /\ Len(journal) = 3

\* C21: a step of handle_chat_member_update that appends a subscribe row for
\* a notification whose invite link is the invite_link of an inviter row
\* appends it with that inviter's id.
C21_JoinAttributed ==
    [][(/\ last'.op = "chat_member"
        /\ last'.event_type = "subscribe"
        /\ Len(journal') = Len(journal) + 1
        /\ \E r \in inviters : r.invite_link = last'.upd.invite_link)
       => \E r \in inviters :
              /\ r.invite_link = last'.upd.invite_link
              /\ journal'[Len(journal')].inviter_id = r.id]_vars

\* C22: a step of handle_chat_member_update for a notification that is an
\* event and carries an invite link which no inviter row holds, or whose
\* lookup raised, appends one row of that event for the notification's
\* subject, with inviter_id NULL.
C22_UnresolvedStillAppended ==
    [][(/\ last'.op = "chat_member"
        /\ last'.event_type # NoneStr
        /\ last'.upd.invite_link # NoneStr
        /\ \/ resolve_inviter(inviters, last'.upd.invite_link).raised
           \/ ~ \E r \in inviters : r.invite_link = last'.upd.invite_link)
       => /\ Len(journal') = Len(journal) + 1
          /\ journal'[Len(journal')].event_type = last'.event_type
          /\ journal'[Len(journal')].tg_user_id = last'.upd.user
          /\ journal'[Len(journal')].inviter_id = None]_vars

\* C22 witness: a supergroup join through a link no inviter holds was
\* handled, and the journal's last row is its group_join with no inviter.
C22_Witness ==
    /\ last.op = "chat_member"
    /\ last.upd.invite_link = "t2"
    /\ ~ \E r \in inviters : r.invite_link = "t2"
    /\ Len(journal) >= 1
    /\ journal[Len(journal)].event_type = "group_join"
    /\ journal[Len(journal)].inviter_id = None

\* C23: insert_user_if_not_exists is idempotent.  A call for an external id
\* that has a row returns that row's id and adds no row; no row's id or
\* external id ever changes and no two rows share an external id; a stored
\* handle or name that is not NULL is not NULL after the call; and a call
\* with the arguments of the call before it leaves the table as it was.
C23_UpsertSubjectIdempotent ==
    [][last'.op = "insert_user_if_not_exists"
       => /\ last'.before # NoUser
             => /\ last'.result = last'.before.id
                /\ Cardinality(users') = Cardinality(users)
          /\ \A r \in users : \E q \in users' :
                /\ q.id = r.id /\ q.tg_user_id = r.tg_user_id
                /\ r.username # NoneStr => q.username # NoneStr
                /\ r.name # NoneStr => q.name # NoneStr
          /\ \A r, q \in users' : r.tg_user_id = q.tg_user_id => r = q
          /\ (/\ last.op = "insert_user_if_not_exists"
              /\ last'.tg_user_id = last.tg_user_id
              /\ last'.username = last.username
              /\ last'.name = last.name) => users' = users]_vars

\* C23 witness: the last call passed no handle and no name for a subject
\* whose row holds both, while the table holds a second subject.
C23_Witness ==
    /\ last.op = "insert_user_if_not_exists"
    /\ last.username = NoneStr /\ last.name = NoneStr
    /\ last.before # NoUser
    /\ last.before.username # NoneStr /\ last.before.name # NoneStr
    /\ UserRow(users, last.tg_user_id) = last.before
    /\ last.result = last.before.id
    /\ Cardinality(users) = 2

\* C24 (as stated): a call on an existing subject leaves a stored handle or
\* name that is not NULL as it is.
C24_BackfillOnly ==
    [][(last'.op = "insert_user_if_not_exists" /\ last'.before # NoUser)
       => LET q == UserRow(users', last'.tg_user_id)
          IN  /\ last'.before.username # NoneStr => q.username = last'.before.username
              /\ last'.before.name # NoneStr => q.name = last'.before.name]_vars

\* C24 (amended): a call on an existing subject stores the incoming handle
\* (name) when it is not NULL, whatever the stored one is, and leaves the
\* stored one when the incoming one is NULL; nothing else of the row changes.
C24_IncomingReplaces ==
    [][(last'.op = "insert_user_if_not_exists" /\ last'.before # NoUser)
       => LET q == UserRow(users', last'.tg_user_id)
          IN  /\ q.username = (IF last'.username # NoneStr THEN last'.username
                               ELSE last'.before.username)
              /\ q.name = (IF last'.name # NoneStr THEN last'.name
                           ELSE last'.before.name)
              /\ q.id = last'.before.id
              /\ users' \ {q} = users \ {last'.before}]_vars

\* C24 witness: the last call replaced the stored handle "alex" by "alexa"
\* and kept the stored name, passing none.
C24_Witness ==
    /\ last.op = "insert_user_if_not_exists"
    /\ last.before.username = "alex" /\ last.username = "alexa"
    /\ last.before.name = "Alex" /\ last.name = NoneStr
    /\ UserRow(users, last.tg_user_id).username = "alexa"
    /\ UserRow(users, last.tg_user_id).name = "Alex"

\* The inviter rows that hold the display name or the handle of a call.
Holders(inv, name, username) ==
    {r \in inv : r.name = name \/ (username # NoneStr /\ r.username = username)}

\* C25: a call of upsert_inviter or create_invite_for whose display name or
\* handle an inviter row already holds adds no row and changes no row's id,
\* and upsert_inviter returns the id of a row that held the name or the
\* handle.
C25_UpsertInPlace ==
    [][(/\ last'.op \in {"upsert_inviter", "create_invite_for"}
        /\ ~ last'.raised
        /\ Holders(inviters, last'.name, last'.username) # {})
       => /\ Cardinality(inviters') = Cardinality(inviters)
          /\ {r.id : r \in inviters'} = {r.id : r \in inviters}
          /\ last'.op = "upsert_inviter"
             => \E r \in Holders(inviters, last'.name, last'.username) :
                    last'.result = r.id]_vars

\* C26: an upsert_inviter call whose handle one inviter row holds and whose
\* display name another row holds returns the id of the row that holds the
\* handle, and that row is the one that carries the call's values afterwards.
C26_HandleMatchWins ==
    [][(/\ last'.op = "upsert_inviter"
        /\ last'.username # NoneStr
        /\ \E h, n \in inviters :
              /\ h.id # n.id
              /\ h.username = last'.username /\ h.name # last'.name
              /\ n.name = last'.name /\ n.username # last'.username)
       => \E h \in inviters :
              /\ h.username = last'.username
              /\ last'.result = h.id
              /\ [id |-> h.id, name |-> last'.name, username |-> last'.username,
                  invite_link |-> last'.invite_link] \in inviters']_vars

\* C27: every journal row whose inviter_id is not NULL carries the id of a
\* row of inviters.
C27_InviterExists ==
    \A i \in Ids(journal) :
        journal[i].inviter_id # None => \E r \in inviters : r.id = journal[i].inviter_id

\* C27 witness: delete_invite was called for an inviter that a journal row
\* refers to, after that inviter had been upserted again.
C27_Witness ==
    /\ last.op = "delete_invite" /\ last.raised
    /\ \E i \in Ids(journal) : journal[i].inviter_id = last.result
    /\ \E r \in inviters : r.id = last.result /\ r.username = "@bob" /\ r.name = "Ann"
    /\ Cardinality(inviters) = 1 /\ inviter_seq = 2

\* C28: no two rows of inviters hold the same invite_link that is not NULL.
C28_TokenUnique ==
    \A r, q \in inviters :
        (r.invite_link # NoneStr /\ r.invite_link = q.invite_link) => r.id = q.id

\* C29: an insert_journal_event call that is not a duplicate delivery and
\* meets a storage failure (the connection or the commit fails, the row
\* violates a constraint, or its inviter_id is no inviter's id) raises, and
\* the journal is afterwards what it was before the call.
C29_StorageErrorRaised ==
    [][(/\ last'.op = "insert_journal_event"
        /\ ~ last'.duplicate
        /\ \/ last'.fault # "none"
           \/ ForeignKeyFails(inviters, last'.inviter_id))
       => (last'.raised /\ journal' = journal)]_vars

\* C29 witness: the commit of a call with a delivery id failed on a journal
\* that holds a row, and the journal holds that one row still.
C29_Witness ==
    /\ last.op = "insert_journal_event"
    /\ last.fault = "commit" /\ last.telegram_update_id = 1 /\ ~ last.duplicate
    /\ last.raised
    /\ Len(journal) = 1

\* C30: a get_retention_stats run in which the evaluation of some candidate
\* subscription failed has evaluated every candidate all the same and
\* returned numbers, not raised.
C30_BatchSurvivesFailure ==
    (last.op = "evaluate" /\ last.run.failed > 0)
        => /\ ~ last.run.raised
           /\ last.run.attempted = last.run.candidates
           /\ last.run.stats.total_subscriptions = last.run.candidates


\* The subscribe and unsubscribe rows of the days first .. end - 1.
Matching(first, end) ==
    EventsIn("subscribe", first, end) \cup EventsIn("unsubscribe", first, end)

\* C31: on a journal with no matching events the aggregation queries return
\* zeros or nothing: get_daily_stats, get_weekly_stats and get_monthly_stats
\* with no subscribe or unsubscribe in the period, get_retention_stats and
\* get_retention_for_date with no subscribe on the cohort day,
\* get_daily_report_data with no event on the day (and a total of 0 with no
\* subscribe at all), get_statistics_data with no attributed subscribe.
C31_QuietJournalZeros ==
    /\ last.op \in {"get_daily_stats", "get_weekly_stats", "get_monthly_stats"} =>
          LET end == CASE last.op = "get_daily_stats" -> last.first + 1
                       [] last.op = "get_weekly_stats" -> last.first + 7
                       [] last.op = "get_monthly_stats" -> last.first + 31
          IN  Matching(last.first, end) = {} =>
                  last.stats = [total_subscriptions |-> 0, total_unsubscriptions |-> 0,
                                unique_subscribers |-> 0, repeat_subscribers |-> 0,
                                net_growth |-> 0]
    /\ (/\ last.op = "get_retention_stats"
        /\ EventsIn("subscribe", last.first, last.first + 1) = {})
          => /\ last.stats = [total_subscriptions |-> 0, retained |-> 0,
                              not_retained |-> 0]
             /\ last.rate = ZeroRate
    /\ (/\ last.op = "get_retention_for_date"
        /\ EventsIn("subscribe", last.first, last.first + 1) = {})
          => last.stats = [total_subscriptions |-> 0, retained |-> 0,
                           retention_rate |-> ZeroRate]
    /\ (/\ last.op = "get_daily_report_data"
        /\ Matching(last.first, last.first + 1) = {})
          => /\ last.data.new_subscriptions = 0
             /\ last.data.unsubscriptions = 0
             /\ (\A i \in Ids(journal) : ~ IsSub(i)) => last.data.total_active = 0
    /\ (/\ last.op = "get_statistics_data"
        /\ \A i \in Ids(journal) : IsSub(i) => journal[i].inviter_id = None)
          => last.rows = {}

\* C31 witness: get_retention_for_date was asked about 7 January on a journal
\* whose three rows are all of other days, and returned the zeros.
C31_Witness ==
    /\ last.op = "get_retention_for_date" /\ last.first = 6
    /\ Len(journal) = 3
    /\ \A i \in Ids(journal) : DayOf(journal[i].event_time) # 6
    /\ last.stats.total_subscriptions = 0
    /\ last.stats.retention_rate = ZeroRate


\* C32: when two calls of insert_journal_event that ran at the same time have
\* each appended a subscribe event of the same subject, attributed to two
\* different inviters, at least one of the two rows carries the repeat marker.
C32_ConcurrentRepeatMarked ==
    \A p, q \in Procs :
        (/\ p # q
         /\ calls[p].pc = "done" /\ calls[q].pc = "done"
         /\ calls[p].overlap /\ calls[q].overlap
         /\ ~ calls[p].raised /\ ~ calls[q].raised
         /\ calls[p].event_type = "subscribe" /\ calls[q].event_type = "subscribe"
         /\ calls[p].tg_user_id = calls[q].tg_user_id
         /\ calls[p].inviter_id # None /\ calls[q].inviter_id # None
         /\ calls[p].inviter_id # calls[q].inviter_id
         /\ calls[p].result # calls[q].result)
        => \/ journal[calls[p].result].note \in RepeatNotes
           \/ journal[calls[q].result].note \in RepeatNotes


\* C33: a step of upsert_inviter that is called without an invite_link and
\* returns an inviter that existed before leaves that inviter's invite_link
\* as it was, so every token get_inviter_by_link resolved to the inviter
\* before the step resolves to it after the step.
C33_LinkKept ==
    [][(/\ last'.op = "upsert_inviter"
        /\ last'.invite_link = NoneStr
        /\ inviters' # inviters
        /\ last'.result \in InviterIds)
       => /\ \A r \in inviters : r.id = last'.result
                => \E q \in inviters' : q.id = r.id /\ q.invite_link = r.invite_link
          /\ \A invite_link \in InviteLinks :
                get_inviter_by_link(inviters, invite_link) = last'.result
                => get_inviter_by_link(inviters', invite_link) = last'.result]_vars


\* C34: a subject whose latest journal row is the manual_delete row that
\* delete_user appended is not counted as active: none of its subscribe rows
\* passes the test of total_active, of currently_subscribed and of the status
\* column (a subscribe row with no later unsubscribe row of the subject).
C34_DeletedNotActive ==
    \A i \in Ids(journal) :
        (/\ journal[i].event_type = "manual_delete"
         /\ \A k \in Ids(journal) : k > i => journal[k].tg_user_id # journal[i].tg_user_id)
        => \A k \in Ids(journal) :
              (journal[k].tg_user_id = journal[i].tg_user_id /\ IsSub(k))
              => ~ NoLaterUnsubscribe(journal, k)


\* C35: for every inviter that get_statistics_data lists, its
\* currently_subscribed equals the active_now of _get_invite_stats for the
\* inviter and the number count_active_users_by_inviter returns for the
\* inviter's name.
C35_ActiveCountsAgree ==
    last.op = "get_statistics_data" =>
        \A row \in last.rows :
            /\ row.currently_subscribed
                  = _get_invite_stats(journal, row.inviter_id).active_now
            /\ \A r \in inviters : r.id = row.inviter_id =>
                  row.currently_subscribed
                      = count_active_users_by_inviter(journal, inviters, r.name)


\* C39: after /schedule disable (configure(enabled=False), then stop()) the
\* scheduler's config.enabled is False and running is False, whatever target
\* chats are configured.
C39_DisabledStaysDisabled ==
    last.op = "schedule_disable" => ~ scheduler.enabled /\ ~ scheduler.running

\* C40: no chat is sent the scheduled daily report of a day more than once.
C40_DailyReportOnce ==
    \A k \in DOMAIN scheduler.delivered : scheduler.delivered[k] <= 1

FlowHandlers ==
    {"start_manual_add_flow", "handle_user_id_input", "handle_username_input",
     "skip_username", "handle_user_name_input", "skip_name", "handle_inviter_input",
     "skip_inviter", "handle_back_to_main", "handle_delete_confirmation",
     "handle_delete_link", "handle_add_admin", "handle_admin_id_input"}

\* C37: a message or callback of a sender outside ADMIN_IDS writes to none of
\* the journal, users and inviters tables, whatever the dialog state.
C37_OutsiderWritesNothing ==
    [][(last'.op \in FlowHandlers /\ last'.sender \notin ADMIN_IDS) =>
           /\ journal' = journal
           /\ users' = users
           /\ inviters' = inviters]_vars

\* A sender outside ADMIN_IDS pressed "skip:inviter": add_user_manual was
\* called and returned False.
C37_Witness ==
    /\ last.op = "skip_inviter"
    /\ last.sender \notin ADMIN_IDS
    /\ last.called
    /\ ~ last.success

=============================================================================
